---- MODULE Spec2Model ----
(***************************************************************************)
(* A model of the catis interpreter (src/src/main.c): the reader           *)
(* (parse_object), the reference-counted object heap (new_object, retain,  *)
(* release, deep_copy, get_unshared_object), the evaluator (eval) as a     *)
(* small-step machine with an explicit stack of C activations, the         *)
(* procedure table and the built-in library, driven by the read-eval loop  *)
(* of repl().                                                              *)
(*                                                                         *)
(* Conventions.  A byte is a one-character string; NUL is the terminating  *)
(* byte of a C string.  A pointer to a catis_object is an index into       *)
(* `heap`; NULL is 0.  free() marks a node freed and keeps its bytes: the  *)
(* allocator of this model never hands a freed address out again, so a     *)
(* dangling pointer is always recognisable.  A pointer to a stackframe is  *)
(* an index into `frames`.  The `line` fields, which only feed error       *)
(* messages, are left out, and error_string holds the message without the  *)
(* offending text and the call trace.                                      *)
(***************************************************************************)
EXTENDS Integers, Sequences, FiniteSets, TLC

NULL == 0

(* -- types (main.c:19-25): a type mask is a set of type names ----------- *)
CATIS_TYPE_BOOL   == "BOOL"
CATIS_TYPE_INT    == "INT"
CATIS_TYPE_LIST   == "LIST"
CATIS_TYPE_STRING == "STRING"
CATIS_TYPE_SYMBOL == "SYMBOL"
CATIS_TYPE_TUPLE  == "TUPLE"
CATIS_TYPE_ANY    == {"BOOL", "INT", "LIST", "STRING", "SYMBOL", "TUPLE"}
\* the type new_object(-1) leaves in an object the reader has not typed yet
TYPE_NONE == "NONE"

(* -- bytes -------------------------------------------------------------- *)
NUL == "NUL"
Digit == {"0", "1", "2", "3", "4", "5", "6", "7", "8", "9"}
Lower == {"a", "b", "c", "d", "e", "f", "g", "h", "i", "j", "k", "l", "m",
          "n", "o", "p", "q", "r", "s", "t", "u", "v", "w", "x", "y", "z"}
Upper == {"A", "B", "C", "D", "E", "F", "G", "H", "I", "J", "K", "L", "M",
          "N", "O", "P", "Q", "R", "S", "T", "U", "V", "W", "X", "Y", "Z"}
isalpha(c) == c \in Lower \cup Upper
isdigit(c) == c \in Digit
isspace(c) == c \in {" ", "\t", "\n", "\r", "\f"}
DigitValue(c) ==
    CASE c = "0" -> 0 [] c = "1" -> 1 [] c = "2" -> 2 [] c = "3" -> 3
      [] c = "4" -> 4 [] c = "5" -> 5 [] c = "6" -> 6 [] c = "7" -> 7
      [] c = "8" -> 8 [] c = "9" -> 9

\* string[k] of a NUL-terminated C string held as a sequence of bytes
At(src, k) == IF k >= 1 /\ k <= Len(src) THEN src[k] ELSE NUL

(* -- object representation (main.c:28-46) ------------------------------- *)
\* new_object: reference count 1, the payload not yet written
new_object(type) ==
    [type |-> type, reference_count |-> 1, integer |-> 0, boolean |-> 0,
     element |-> <<>>, pointer |-> <<>>, quoted |-> 0, freed |-> FALSE]

new_integer(integer) == [new_object(CATIS_TYPE_INT) EXCEPT !.integer = integer]
new_boolean(boolean) == [new_object(CATIS_TYPE_BOOL) EXCEPT !.boolean = boolean]
new_string(bytes) == [new_object(CATIS_TYPE_STRING) EXCEPT !.pointer = bytes]

IsContainer(type) == type \in {CATIS_TYPE_LIST, CATIS_TYPE_TUPLE}

\* retain: object->reference_count++
retain(h, o) == [h EXCEPT ![o].reference_count = @ + 1]

\* release: drop one reference; at zero release the children in order and
\* free the object.
RECURSIVE release(_, _)
RECURSIVE release_elements(_, _, _)
release_elements(h, es, k) ==
    IF k > Len(es) THEN h ELSE release_elements(release(h, es[k]), es, k + 1)

release(h, o) ==
    IF o = NULL THEN h
    ELSE LET h1 == [h EXCEPT ![o].reference_count = @ - 1]
         IN  IF h1[o].reference_count # 0 THEN h1
             ELSE LET h2 == IF IsContainer(h1[o].type)
                              THEN release_elements(h1, h1[o].element, 1)
                              ELSE h1
                  IN  [h2 EXCEPT ![o].freed = TRUE]

(* -- lexing and parsing (main.c:144-406) -------------------------------- *)
is_symbol(c) ==
    \/ isalpha(c)
    \/ c \in {"@", "$", "#", "+", "-", "*", "/", "=", "?", "%", ">", "<",
              "_", ".", "^", "'"}

RECURSIVE skip_space(_, _)
skip_space(src, p) == IF isspace(At(src, p)) THEN skip_space(src, p + 1) ELSE p

RECURSIVE skip_line(_, _)
skip_line(src, p) ==
    IF At(src, p) # NUL /\ At(src, p) # "\n" THEN skip_line(src, p + 1) ELSE p

RECURSIVE consume_space_and_comment(_, _)
consume_space_and_comment(src, p) ==
    LET q == skip_space(src, p)
    IN  IF ~(At(src, q) = "/" /\ At(src, q + 1) = "/") THEN q
        ELSE consume_space_and_comment(src, skip_line(src, q))

\* the end of the run of bytes the integer branch copies into its buffer
RECURSIVE integer_end(_, _)
integer_end(src, p) ==
    IF At(src, p) = "-" \/ isdigit(At(src, p)) THEN integer_end(src, p + 1) ELSE p

\* atoi on the buffer: an optional sign, then digits up to the first non-digit
RECURSIVE atoi_digits(_, _, _, _)
atoi_digits(src, p, end, acc) ==
    IF p < end /\ isdigit(At(src, p))
    THEN atoi_digits(src, p + 1, end, acc * 10 + DigitValue(At(src, p)))
    ELSE acc
atoi(src, p, end) ==
    IF At(src, p) = "-" THEN 0 - atoi_digits(src, p + 1, end, 0)
    ELSE atoi_digits(src, p, end, 0)

RECURSIVE symbol_end(_, _)
symbol_end(src, p) == IF is_symbol(At(src, p)) THEN symbol_end(src, p + 1) ELSE p

\* the string branch's loop: the decoded bytes and the cursor it stops at
RECURSIVE string_body(_, _, _)
string_body(src, p, acc) ==
    IF At(src, p) = NUL \/ At(src, p) = "\"" THEN [bytes |-> acc, stop |-> p]
    ELSE IF At(src, p) = "\\"
         THEN LET e == At(src, p + 1)
                  c == CASE e = "n" -> "\n" [] e = "r" -> "\r"
                         [] e = "t" -> "\t" [] OTHER -> e
              IN  string_body(src, p + 2, Append(acc, c))
         ELSE string_body(src, p + 1, Append(acc, At(src, p)))

Parsed(h, object, next, error) ==
    [heap |-> h, object |-> object, next |-> next, error |-> error]

\* what parse_object returns: the heap after it, the object (NULL on
\* failure), *next, and the message given to set_error ("" when none)
RECURSIVE parse_object(_, _, _)
RECURSIVE parse_elements(_, _, _, _)
parse_elements(h, src, p0, object) ==
    LET p == consume_space_and_comment(src, p0)
    IN  IF \/ (h[object].type = CATIS_TYPE_LIST /\ At(src, p) = "]")
           \/ (h[object].type = CATIS_TYPE_TUPLE /\ At(src, p) = ")")
        THEN Parsed(h, object, p + 1, "")
        ELSE LET r == parse_object(h, src, p)
             IN  IF r.object = NULL
                 THEN Parsed(release(r.heap, object), NULL, r.next, r.error)
                 ELSE IF /\ r.heap[object].type = CATIS_TYPE_TUPLE
                         /\ \/ r.heap[r.object].type # CATIS_TYPE_SYMBOL
                            \/ Len(r.heap[r.object].pointer) # 1
                 THEN Parsed(release(release(r.heap, r.object), object), NULL, p,
                             "Tuples can only contain single character symbols")
                 ELSE parse_elements(
                          [r.heap EXCEPT ![object].element = Append(@, r.object)],
                          src, r.next, object)

parse_object(h, src, p0) ==
    LET object == Len(h) + 1
        h0 == Append(h, new_object(TYPE_NONE))
        p  == consume_space_and_comment(src, p0)
        c0 == At(src, p)
        c1 == At(src, p + 1)
    IN  IF (c0 = "-" /\ isdigit(c1)) \/ isdigit(c0)
        THEN \* parse integer
             LET end == integer_end(src, p)
             IN  Parsed([h0 EXCEPT ![object].type = CATIS_TYPE_INT,
                                   ![object].integer = atoi(src, p, end)],
                        object, end, "")
        ELSE IF c0 = "[" \/ c0 = "(" \/ (c0 = "'" /\ c1 = "(")
        THEN \* parse list, tuple, quoted tuple
             LET q  == IF c0 = "'" THEN p + 1 ELSE p
                 h1 == [h0 EXCEPT
                          ![object].quoted = IF c0 = "'" THEN 1 ELSE 0,
                          ![object].type = IF At(src, q) = "[" THEN CATIS_TYPE_LIST
                                           ELSE CATIS_TYPE_TUPLE]
             IN  parse_elements(h1, src, q + 1, object)
        ELSE IF is_symbol(c0)
        THEN \* parse symbol
             LET q   == IF c0 = "'" THEN p + 1 ELSE p
                 end == symbol_end(src, q)
             IN  Parsed([h0 EXCEPT ![object].type = CATIS_TYPE_SYMBOL,
                                   ![object].quoted = IF c0 = "'" THEN 1 ELSE 0,
                                   ![object].pointer = SubSeq(src, q, end - 1)],
                        object, end, "")
        ELSE IF c0 = "#"
        THEN \* parse boolean
             IF c1 # "t" /\ c1 # "f"
             THEN Parsed(release(h0, object), NULL, p, "Booleans are either #t or #f")
             ELSE Parsed([h0 EXCEPT ![object].type = CATIS_TYPE_BOOL,
                                    ![object].boolean = IF c1 = "t" THEN 1 ELSE 0],
                         object, p + 2, "")
        ELSE IF c0 = "\""
        THEN \* parse string
             LET b == string_body(src, p + 1, <<>>)
             IN  IF At(src, b.stop) # "\""
                 THEN Parsed(release([h0 EXCEPT ![object].type = CATIS_TYPE_STRING],
                                     object),
                             NULL, b.stop, "Quotation marks never closed in string")
                 ELSE Parsed([h0 EXCEPT ![object].type = CATIS_TYPE_STRING,
                                        ![object].pointer = b.bytes],
                             object, b.stop + 1, "")
        ELSE Parsed(release(h0, object), NULL, p, "No object type starts like this")

(* -- compare objects (main.c:409-460) ----------------------------------- *)
\* INT_MIN
COMPARE_TYPE_MISMATCH == -2147483647 - 1

\* the bytes in increasing order of their value, for strcmp (the grave
\* accent, which no program of this model holds, is left out)
Ascii ==
    <<"NUL", "\t", "\n", "\f", "\r", " ", "!", "\"", "#", "$", "%", "&", "'",
      "(", ")", "*", "+", ",", "-", ".", "/",
      "0", "1", "2", "3", "4", "5", "6", "7", "8", "9",
      ":", ";", "<", "=", ">", "?", "@",
      "A", "B", "C", "D", "E", "F", "G", "H", "I", "J", "K", "L", "M",
      "N", "O", "P", "Q", "R", "S", "T", "U", "V", "W", "X", "Y", "Z",
      "[", "\\", "]", "^", "_",
      "a", "b", "c", "d", "e", "f", "g", "h", "i", "j", "k", "l", "m",
      "n", "o", "p", "q", "r", "s", "t", "u", "v", "w", "x", "y", "z",
      "{", "|", "}", "~">>
ByteOrder(c) == CHOOSE k \in 1..Len(Ascii) : Ascii[k] = c

\* strcmp on two NUL-terminated byte strings: -1, 0 or 1
RECURSIVE strcmp(_, _, _)
strcmp(a, b, k) ==
    LET ca == At(a, k)
        cb == At(b, k)
    IN  IF ca # cb THEN (IF ByteOrder(ca) < ByteOrder(cb) THEN -1 ELSE 1)
        ELSE IF ca = NUL THEN 0
        ELSE strcmp(a, b, k + 1)

compare(h, a, b) ==
    LET ta == h[a].type
        tb == h[b].type
        Text == {CATIS_TYPE_STRING, CATIS_TYPE_SYMBOL}
    IN  IF ta = CATIS_TYPE_INT /\ tb = CATIS_TYPE_INT
        THEN (IF h[a].integer < h[b].integer THEN -1
              ELSE IF h[a].integer > h[b].integer THEN 1 ELSE 0)
        ELSE IF ta = CATIS_TYPE_BOOL /\ tb = CATIS_TYPE_BOOL
        THEN (IF h[a].boolean < h[b].boolean THEN -1
              ELSE IF h[a].boolean > h[b].boolean THEN 1 ELSE 0)
        ELSE IF ta \in Text /\ tb \in Text
        THEN strcmp(h[a].pointer, h[b].pointer, 1)
        ELSE IF IsContainer(ta) /\ IsContainer(tb)
        THEN (IF Len(h[a].element) < Len(h[b].element) THEN -1
              ELSE IF Len(h[a].element) > Len(h[b].element) THEN 1 ELSE 0)
        ELSE COMPARE_TYPE_MISMATCH

(* -- printing (main.c:474-568), without the colour escapes -------------- *)
DigitByte(n) == CHOOSE c \in Digit : DigitValue(c) = n
RECURSIVE decimal(_)
decimal(n) ==
    IF n < 0 THEN <<"-">> \o decimal(0 - n)
    ELSE IF n < 10 THEN <<DigitByte(n)>>
    ELSE decimal(n \div 10) \o <<DigitByte(n % 10)>>

RECURSIVE repr_bytes(_, _)
repr_bytes(bytes, k) ==
    IF k > Len(bytes) THEN <<>>
    ELSE LET c == bytes[k]
             e == CASE c = "\n" -> <<"\\", "n">>
                    [] c = "\r" -> <<"\\", "r">>
                    [] c = "\t" -> <<"\\", "t">>
                    [] c = "\"" -> <<"\\", "\"">>
                    [] OTHER -> <<c>>
         IN  e \o repr_bytes(bytes, k + 1)

\* the bytes print_object writes; repr is the PRINT_REPR flag
RECURSIVE print_object(_, _, _)
RECURSIVE print_elements(_, _, _, _)
print_elements(h, es, k, repr) ==
    IF k > Len(es) THEN <<>>
    ELSE print_object(h, es[k], repr)
         \o (IF k # Len(es) THEN <<" ">> ELSE <<>>)
         \o print_elements(h, es, k + 1, repr)

print_object(h, o, repr) ==
    LET t == h[o].type
    IN  CASE t = CATIS_TYPE_BOOL ->
               <<"#", IF h[o].boolean # 0 THEN "t" ELSE "f">>
          [] t = CATIS_TYPE_INT -> decimal(h[o].integer)
          [] t = CATIS_TYPE_SYMBOL -> h[o].pointer
          [] t = CATIS_TYPE_STRING ->
               IF ~repr THEN h[o].pointer
               ELSE <<"\"">> \o repr_bytes(h[o].pointer, 1) \o <<"\"">>
          [] IsContainer(t) ->
               (IF repr THEN <<IF t = CATIS_TYPE_LIST THEN "[" ELSE "(">> ELSE <<>>)
               \o print_elements(h, h[o].element, 1, repr)
               \o (IF repr THEN <<IF t = CATIS_TYPE_LIST THEN "]" ELSE ")">> ELSE <<>>)
          [] OTHER -> <<>>

(* -- deep_copy, get_unshared_object (main.c:592-642) -------------------- *)
Copied(h, object) == [heap |-> h, object |-> object]

\* deep_copy never writes list_or_tuple.quoted of the copy, so a copied
\* Tuple holds whatever the allocation held: u, 0 or 1, is that value.  The
\* flag of a List is never read by the program and is kept 0.
RECURSIVE deep_copy(_, _, _)
RECURSIVE deep_copy_elements(_, _, _, _, _)
deep_copy_elements(h, es, k, copy, u) ==
    IF k > Len(es) THEN h
    ELSE LET r == deep_copy(h, es[k], u)
         IN  deep_copy_elements(
                 [r.heap EXCEPT ![copy].element = Append(@, r.object)],
                 es, k + 1, copy, u)

deep_copy(h, object, u) ==
    IF object = NULL THEN Copied(h, NULL)
    ELSE LET copy == Len(h) + 1
             t    == h[object].type
             h0   == Append(h, new_object(t))
         IN  CASE t = CATIS_TYPE_INT ->
                    Copied([h0 EXCEPT ![copy].integer = h[object].integer], copy)
               [] t = CATIS_TYPE_BOOL ->
                    Copied([h0 EXCEPT ![copy].boolean = h[object].boolean], copy)
               [] IsContainer(t) ->
                    Copied(deep_copy_elements(
                               [h0 EXCEPT ![copy].quoted =
                                    IF t = CATIS_TYPE_TUPLE THEN u ELSE 0],
                               h[object].element, 1, copy, u),
                           copy)
               [] t \in {CATIS_TYPE_STRING, CATIS_TYPE_SYMBOL} ->
                    Copied([h0 EXCEPT ![copy].pointer = h[object].pointer,
                                      ![copy].quoted = h[object].quoted], copy)
               [] OTHER -> Copied(h0, copy)

\* get_unshared_object that hands back the object itself, shared or not
get_unshared_object_same(h, object, u) == Copied(h, object)
get_unshared_object(h, object, u) ==
    IF h[object].reference_count > 1
    THEN deep_copy(release(h, object), object, u)
    ELSE Copied(h, object)

\* the values an uninitialised int flag can hold, as the program reads it
Uninitialised == {0, 1}

(* -- stack frames (main.c:62-67, 685-698) -------------------------------- *)
\* locals is kept as a function on the bound slots only: a slot outside its
\* domain holds NULL, as after the memset of new_stackframe
NoLocals == [index \in {} |-> NULL]
new_stackframe(previous) ==
    [locals |-> NoLocals, procedure |-> NULL, previous |-> previous,
     freed |-> FALSE]
Local(f, index) == IF index \in DOMAIN f.locals THEN f.locals[index] ELSE NULL
\* a slot that keeps its first value: a wrong variant, which the property
\* of C8 must tell from SetLocal
SetLocal_keep(locals, index, object) ==
    [k \in DOMAIN locals \cup {index} |->
        IF k \in DOMAIN locals THEN locals[k] ELSE object]
SetLocal(locals, index, object) ==
    [k \in DOMAIN locals \cup {index} |->
        IF k = index THEN object ELSE locals[k]]

\* release_stackframe: release the slots in index order
RECURSIVE release_locals(_, _, _)
release_locals(h, locals, left) ==
    IF left = {} THEN h
    ELSE LET index == CHOOSE k \in left :
                          \A j \in left : ByteOrder(k) <= ByteOrder(j)
         IN  release_locals(release(h, locals[index]), locals, left \ {index})
release_stackframe(h, f) == release_locals(h, f.locals, DOMAIN f.locals)

(* -- stack utils (main.c:712-741) --------------------------------------- *)
stack_push(s, object) == Append(s, object)
stack_peek(s, offset) == IF Len(s) <= offset THEN NULL ELSE s[Len(s) - offset]
stack_drop(s, count) == SubSeq(s, 1, Len(s) - count)
stack_set(s, offset, object) == [s EXCEPT ![Len(s) - offset] = object]

(* -- procedure utils (main.c:871-951) ----------------------------------- *)
NoError == ""

\* check_stack_type: the message it gives set_error, NoError when it
\* returns 0; types[k] is the mask of the k-th operand from the bottom
check_stack_length(s, minimum) ==
    IF Len(s) < minimum THEN "Out of stack" ELSE NoError
check_stack_type(h, s, types) ==
    LET count == Len(types)
    IN  IF Len(s) < count THEN "Out of stack"
        ELSE IF \E k \in 1..count : h[s[Len(s) - count + k]].type \notin types[k]
        THEN "Type mismatch"
        ELSE NoError

\* the procedure table: context->procedure is the last entry, ->next the
\* one before; a catis_procedure* is an index, which never moves
RECURSIVE lookup_from(_, _, _)
lookup_from(procs, name, k) ==
    IF k = 0 THEN NULL
    ELSE IF procs[k].name = name THEN k
    ELSE lookup_from(procs, name, k - 1)
lookup_procedure(procs, name) == lookup_from(procs, name, Len(procs))

NoFunction == ""
Table(h, procs) == [heap |-> h, procedure |-> procs]

\* add_procedure that leaves the native function in an entry it rebinds
add_procedure_kept(h, procs, name, c_procedure, list) ==
    LET k == lookup_procedure(procs, name)
    IN  IF k # NULL
        THEN Table(IF procs[k].procedure # NULL
                     THEN release(h, procs[k].procedure) ELSE h,
                   [procs EXCEPT ![k].procedure = list])
        ELSE Table(h, Append(procs, [name |-> name, procedure |-> list,
                                     c_procedure |-> c_procedure]))
\* add_procedure that makes a new entry whether the name has one or not: a
\* wrong variant, which the property of C32 must tell from add_procedure
add_procedure_again(h, procs, name, c_procedure, list) ==
    Table(h, Append(procs, [name |-> name, procedure |-> list,
                            c_procedure |-> c_procedure]))
add_procedure(h, procs, name, c_procedure, list) ==
    LET k == lookup_procedure(procs, name)
    IN  IF k # NULL
        THEN Table(IF procs[k].procedure # NULL
                     THEN release(h, procs[k].procedure) ELSE h,
                   [procs EXCEPT ![k].procedure = list,
                                 ![k].c_procedure = c_procedure])
        ELSE Table(h, Append(procs, [name |-> name, procedure |-> list,
                                     c_procedure |-> c_procedure]))

add_string_procedure(h, procs, name, program) ==
    LET r == parse_object(h, program, 1)
    IN  IF r.object = NULL THEN Table(r.heap, procs)
        ELSE add_procedure(r.heap, procs, name, NoFunction, r.object)

(* -- the library (main.c:954-1328): the built-ins that do not call eval -- *)
\* what a built-in leaves: the heap, the stack, its return value, the
\* message given to set_error (NoError when none) and the bytes printed
Result(h, s, return_value, error) ==
    [heap |-> h, stack |-> s, return_value |-> return_value,
     error |-> error, printed |-> <<>>]

\* a / b of C: the quotient truncated towards zero
Quotient(a, b) ==
    LET abs(x) == IF x < 0 THEN 0 - x ELSE x
        q == abs(a) \div abs(b)
    IN  IF (a < 0) = (b < 0) THEN q ELSE 0 - q

\* library_math with every operator taken for + : a wrong variant, which
\* the property of C6 must tell from library_math
library_math_adds(h, s, name) ==
    LET e == check_stack_type(h, s, <<{CATIS_TYPE_INT}, {CATIS_TYPE_INT}>>)
    IN  IF e # NoError THEN Result(h, s, 1, e)
        ELSE LET object_b == s[Len(s)]
                 object_a == s[Len(s) - 1]
                 h1 == Append(h, new_integer(h[object_a].integer
                                             + h[object_b].integer))
             IN  Result(release(release(h1, object_b), object_a),
                        stack_push(stack_drop(s, 2), Len(h1)), 0, NoError)

library_math(h, s, name) ==
    LET e == check_stack_type(h, s, <<{CATIS_TYPE_INT}, {CATIS_TYPE_INT}>>)
    IN  IF e # NoError THEN Result(h, s, 1, e)
        ELSE LET object_b == s[Len(s)]
                 object_a == s[Len(s) - 1]
                 b == h[object_b].integer
                 a == h[object_a].integer
                 result == CASE name = <<"+">> -> a + b
                             [] name = <<"-">> -> a - b
                             [] name = <<"*">> -> a * b
                             [] name = <<"/">> -> Quotient(a, b)
                 h1 == Append(h, new_integer(result))
             IN  Result(release(release(h1, object_b), object_a),
                        stack_push(stack_drop(s, 2), Len(h1)), 0, NoError)

library_compare(h, s, name) ==
    LET e == check_stack_length(s, 2)
    IN  IF e # NoError THEN Result(h, s, 1, e)
        ELSE LET b == s[Len(s)]
                 a == s[Len(s) - 1]
                 comparison == compare(h, a, b)
             IN  IF comparison = COMPARE_TYPE_MISMATCH
                 THEN Result(h, s, 1, "Type mismatch in comparison")
                 ELSE LET result ==
                            IF At(name, 2) = "="
                            THEN CASE At(name, 1) = "=" -> comparison = 0
                                   [] At(name, 1) = "!" -> comparison # 0
                                   [] At(name, 1) = "<" -> comparison <= 0
                                   [] At(name, 1) = ">" -> comparison >= 0
                            ELSE CASE At(name, 1) = "<" -> comparison < 0
                                   [] At(name, 1) = ">" -> comparison > 0
                          h1 == Append(h, new_boolean(IF result THEN 1 ELSE 0))
                      IN  Result(release(release(h1, a), b),
                                 stack_push(stack_drop(s, 2), Len(h1)),
                                 0, NoError)

\* qsort with quicksort_object_comparison.  The comparison returns INT_MIN
\* for two elements of different kinds, in both orders, which is no
\* consistent order: qsort may then leave the elements in any order.
\* Otherwise it leaves them in some non-decreasing order.
Orders(n) ==
    {p \in [1..n -> 1..n] : \A i, j \in 1..n : p[i] = p[j] => i = j}
qsort(h, es) ==
    LET n == Len(es)
        mismatch == \E i, j \in 1..n :
                        i # j /\ compare(h, es[i], es[j]) = COMPARE_TYPE_MISMATCH
    IN  {q \in Orders(n) :
            \/ mismatch
            \/ \A i, j \in 1..n :
                 i < j => compare(h, es[q[i]], es[q[j]]) <= 0}

\* order is the order qsort leaves the elements in, one of qsort(..)
library_sort(h, s, u, order) ==
    LET e == check_stack_type(h, s, <<{CATIS_TYPE_LIST}>>)
    IN  IF e # NoError THEN Result(h, s, 1, e)
        ELSE LET c == get_unshared_object(h, s[Len(s)], u)
                 es == c.heap[c.object].element
             IN  Result([c.heap EXCEPT ![c.object].element =
                                          [k \in 1..Len(es) |-> es[order[k]]]],
                        stack_push(stack_drop(s, 1), c.object), 0, NoError)

library_print(h, s) ==
    LET e == check_stack_length(s, 1)
    IN  IF e # NoError THEN Result(h, s, 1, e)
        ELSE [Result(release(h, s[Len(s)]), stack_drop(s, 1), 0, NoError)
                EXCEPT !.printed = print_object(h, s[Len(s)], FALSE)]

library_println(h, s) ==
    LET e == check_stack_length(s, 1)
    IN  IF e # NoError THEN Result(h, s, 1, e)
        ELSE LET r == library_print(h, s)
             IN  [r EXCEPT !.printed = @ \o <<"\n">>]

library_length(h, s) ==
    LET e == check_stack_type(h, s,
                 <<{CATIS_TYPE_LIST, CATIS_TYPE_TUPLE, CATIS_TYPE_STRING,
                    CATIS_TYPE_SYMBOL}>>)
    IN  IF e # NoError THEN Result(h, s, 1, e)
        ELSE LET object == s[Len(s)]
                 length == IF IsContainer(h[object].type)
                           THEN Len(h[object].element)
                           ELSE Len(h[object].pointer)
                 h1 == Append(release(h, object), new_integer(length))
             IN  Result(h1, stack_push(stack_drop(s, 1), Len(h1)), 0, NoError)

library_list_append(h, s, u) ==
    LET e == check_stack_type(h, s, <<{CATIS_TYPE_LIST}, CATIS_TYPE_ANY>>)
    IN  IF e # NoError THEN Result(h, s, 1, e)
        ELSE LET element == s[Len(s)]
                 c == get_unshared_object(h, s[Len(s) - 1], u)
             IN  Result([c.heap EXCEPT ![c.object].element = Append(@, element)],
                        stack_push(stack_drop(s, 2), c.object), 0, NoError)

\* library_at without the step that counts a negative index from the end
library_at_forward(h, s) ==
    LET e == check_stack_type(h, s,
                 <<{CATIS_TYPE_LIST, CATIS_TYPE_TUPLE, CATIS_TYPE_STRING},
                   {CATIS_TYPE_INT}>>)
    IN  IF e # NoError THEN Result(h, s, 1, e)
        ELSE LET index_object == s[Len(s)]
                 object == s[Len(s) - 1]
                 index == h[index_object].integer
                 h1 == release(h, index_object)
                 length == IF h1[object].type = CATIS_TYPE_STRING
                           THEN Len(h1[object].pointer)
                           ELSE Len(h1[object].element)
                 rest == stack_drop(s, 2)
             IN  IF index < 0 \/ index >= length
                 THEN LET h2 == Append(h1, new_boolean(0))
                      IN  Result(release(h2, object), stack_push(rest, Len(h2)),
                                 0, NoError)
                 ELSE IF h1[object].type = CATIS_TYPE_STRING
                 THEN LET h2 == Append(h1,
                                   new_string(<<h1[object].pointer[index + 1]>>))
                      IN  Result(release(h2, object), stack_push(rest, Len(h2)),
                                 0, NoError)
                 ELSE LET element == h1[object].element[index + 1]
                      IN  Result(release(retain(h1, element), object),
                                 stack_push(rest, element), 0, NoError)
library_at(h, s) ==
    LET e == check_stack_type(h, s,
                 <<{CATIS_TYPE_LIST, CATIS_TYPE_TUPLE, CATIS_TYPE_STRING},
                   {CATIS_TYPE_INT}>>)
    IN  IF e # NoError THEN Result(h, s, 1, e)
        ELSE LET index_object == s[Len(s)]
                 object == s[Len(s) - 1]
                 given == h[index_object].integer
                 h1 == release(h, index_object)
                 length == IF h1[object].type = CATIS_TYPE_STRING
                           THEN Len(h1[object].pointer)
                           ELSE Len(h1[object].element)
                 index == IF given < 0 THEN length + given ELSE given
                 rest == stack_drop(s, 2)
             IN  IF index < 0 \/ index >= length
                 THEN LET h2 == Append(h1, new_boolean(0))
                      IN  Result(release(h2, object), stack_push(rest, Len(h2)),
                                 0, NoError)
                 ELSE IF h1[object].type = CATIS_TYPE_STRING
                 THEN LET h2 == Append(h1,
                                   new_string(<<h1[object].pointer[index + 1]>>))
                      IN  Result(release(h2, object), stack_push(rest, Len(h2)),
                                 0, NoError)
                 ELSE LET element == h1[object].element[index + 1]
                      IN  Result(release(retain(h1, element), object),
                                 stack_push(rest, element), 0, NoError)

RECURSIVE retain_elements(_, _, _)
retain_elements(h, es, k) ==
    IF k > Len(es) THEN h ELSE retain_elements(retain(h, es[k]), es, k + 1)

library_concatenate(h, s, u) ==
    LET Joinable == {CATIS_TYPE_LIST, CATIS_TYPE_TUPLE, CATIS_TYPE_STRING,
                     CATIS_TYPE_SYMBOL}
    IN  IF check_stack_length(s, 2) # NoError
        THEN Result(h, s, 1, check_stack_length(s, 2))
        ELSE IF h[s[Len(s)]].type # h[s[Len(s) - 1]].type
        THEN Result(h, s, 1, "concatenate expects two objects of the same type")
        ELSE IF check_stack_type(h, s, <<Joinable, Joinable>>) # NoError
        THEN Result(h, s, 1, check_stack_type(h, s, <<Joinable, Joinable>>))
        ELSE LET source == s[Len(s)]
                 s1 == stack_drop(s, 1)
                 c == get_unshared_object(h, stack_peek(s1, 0), u)
                 destination == c.object
                 s2 == stack_set(s1, 0, destination)
                 h1 == c.heap
                 h2 == IF h1[source].type \in {CATIS_TYPE_STRING, CATIS_TYPE_SYMBOL}
                       THEN [h1 EXCEPT ![destination].pointer =
                                           @ \o h1[source].pointer]
                       ELSE [retain_elements(h1, h1[source].element, 1)
                               EXCEPT ![destination].element =
                                           @ \o h1[source].element]
             IN  Result(release(h2, source), s2, 0, NoError)

library_to_tuple(h, s, u) ==
    LET e == check_stack_type(h, s, <<{CATIS_TYPE_LIST}>>)
    IN  IF e # NoError THEN Result(h, s, 1, e)
        ELSE LET c == get_unshared_object(h, s[Len(s)], u)
             IN  Result([c.heap EXCEPT ![c.object].type = CATIS_TYPE_TUPLE,
                                       ![c.object].quoted = 0],
                        stack_push(stack_drop(s, 1), c.object), 0, NoError)

(* -- load_library (main.c:1330-1385) ------------------------------------ *)
Source_dup ==
    <<"[", "(", "x", ")", " ", "$", "x", " ", "$", "x", "]">>

\* a swap that pushes its operands back as they came: a wrong variant, which
\* the property of C22 must tell from Source_swap
Source_swap_same ==
    <<"[", "(", "x", " ", "y", ")", " ", "$", "x", " ", "$", "y", "]">>

Source_swap ==
    <<"[", "(", "x", " ", "y", ")", " ", "$", "y", " ", "$", "x", "]">>

Source_drop ==
    <<"[", "(", "_", ")", "]">>

Source_map ==
    <<"[", "(", "l", " ", "f", ")", " ", "$", "l", " ", "#", " ", "(", "s",
      ")", " ", "0", " ", "(", "i", ")", " ", "[", "]", " ", "[", "$", "i",
      " ", "$", "s", " ", "<", "]", " ", "[", " ", "$", "l", " ", "$", "i",
      " ", "@", " ", "$", "f", " ", "u", "p", "-", "e", "v", "a", "l", " ",
      "<", "-", " ", "$", "i", " ", "1", " ", "+", " ", "(", "i", ")", " ",
      "]", " ", "w", "h", "i", "l", "e", "]">>

Source_each ==
    <<"[", "(", "l", " ", "f", ")", " ", "$", "l", " ", "#", " ", "(", "s",
      ")", " ", "0", " ", "(", "i", ")", " ", "[", "$", "i", " ", "$", "s",
      " ", "<", "]", " ", "[", " ", "$", "l", " ", "$", "i", " ", "@", " ",
      "$", "f", " ", "u", "p", "-", "e", "v", "a", "l", " ", "$", "i", " ",
      "1", " ", "+", " ", "(", "i", ")", " ", "]", " ", "w", "h", "i", "l",
      "e", "]">>

Source_head ==
    <<"[", "0", " ", "@", "]">>

Source_tail ==
    <<"[", "#", "t", " ", "(", "d", ")", " ", "[", "]", " ", "(", "n", ")",
      " ", "[", " ", "[", "$", "d", "]", " ", "[", "#", "f", " ", "(", "d",
      ")", " ", "d", "r", "o", "p", "]", " ", "[", "$", "n", " ", "s", "w",
      "a", "p", " ", "<", "-", " ", "(", "n", ")", "]", " ", "i", "f", "-",
      "e", "l", "s", "e", " ", "]", " ", "f", "o", "r", "e", "a", "c", "h",
      " ", "$", "n", "]">>

\* the add_procedure calls of load_library, in order: name and C function
Natives ==
    <<[name |-> <<"+">>, c_procedure |-> "library_math"],
      [name |-> <<"-">>, c_procedure |-> "library_math"],
      [name |-> <<"*">>, c_procedure |-> "library_math"],
      [name |-> <<"/">>, c_procedure |-> "library_math"],
      [name |-> <<"=", "=">>, c_procedure |-> "library_compare"],
      [name |-> <<"!", "=">>, c_procedure |-> "library_compare"],
      [name |-> <<">", "=">>, c_procedure |-> "library_compare"],
      [name |-> <<"<", "=">>, c_procedure |-> "library_compare"],
      [name |-> <<">">>, c_procedure |-> "library_compare"],
      [name |-> <<"<">>, c_procedure |-> "library_compare"],
      [name |-> <<"s", "o", "r", "t">>, c_procedure |-> "library_sort"],
      [name |-> <<"d", "e", "f", "i", "n", "e">>, c_procedure |-> "library_define"],
      [name |-> <<"i", "f">>, c_procedure |-> "library_if"],
      [name |-> <<"i", "f", "-", "e", "l", "s", "e">>, c_procedure |-> "library_if"],
      [name |-> <<"w", "h", "i", "l", "e">>, c_procedure |-> "library_if"],
      [name |-> <<"e", "v", "a", "l">>, c_procedure |-> "library_eval"],
      [name |-> <<"u", "p", "-", "e", "v", "a", "l">>, c_procedure |-> "library_up_eval"],
      [name |-> <<"p", "r", "i", "n">>, c_procedure |-> "library_print"],
      [name |-> <<"p", "r", "i", "n", "t">>, c_procedure |-> "library_println"],
      [name |-> <<"#">>, c_procedure |-> "library_length"],
      [name |-> <<"<", "-">>, c_procedure |-> "library_list_append"],
      [name |-> <<"@">>, c_procedure |-> "library_at"],
      [name |-> <<".">>, c_procedure |-> "library_show_stack"],
      [name |-> <<"^">>, c_procedure |-> "library_concatenate"],
      [name |-> <<"t", "o", "-", "t", "u", "p", "l", "e">>, c_procedure |-> "library_to_tuple"]>>

\* the add_string_procedure calls of load_library, in order
Bootstrap ==
    <<[name |-> <<"d", "u", "p">>, program |-> Source_dup],
      [name |-> <<"s", "w", "a", "p">>, program |-> Source_swap],
      [name |-> <<"d", "r", "o", "p">>, program |-> Source_drop],
      [name |-> <<"m", "a", "p">>, program |-> Source_map],
      [name |-> <<"e", "a", "c", "h">>, program |-> Source_each],
      [name |-> <<"h", "e", "a", "d">>, program |-> Source_head],
      [name |-> <<"t", "a", "i", "l">>, program |-> Source_tail]>>

\* Then(x, e) is e, computed after x (x = x is TRUE): it only fixes the
\* order in which the model checker evaluates a long chain of calls
Then(x, e) == IF x = x THEN e ELSE e

RECURSIVE add_natives(_, _)
add_natives(t, k) ==
    IF k > Len(Natives) THEN t
    ELSE LET t1 == add_procedure(t.heap, t.procedure, Natives[k].name,
                                 Natives[k].c_procedure, NULL)
         IN  Then(t1, add_natives(t1, k + 1))
RECURSIVE add_bootstrap(_, _)
add_bootstrap(t, k) ==
    IF k > Len(Bootstrap) THEN t
    ELSE LET t1 == add_string_procedure(t.heap, t.procedure,
                                        Bootstrap[k].name,
                                        Bootstrap[k].program)
         IN  Then(t1, add_bootstrap(t1, k + 1))
load_library == add_bootstrap(add_natives(Table(<<>>, <<>>), 1), 1)

(* -- the lines typed at the prompt --------------------------------------- *)
\* the lines typed at the prompt, byte by byte
\* [1 1 ==] [10] [20] if-else
Program_if_else ==
    <<"[", "1", " ", "1", " ", "=", "=", "]", " ", "[", "1", "0", "]", " ",
      "[", "2", "0", "]", " ", "i", "f", "-", "e", "l", "s", "e">>
\* [[2] 'f define [9] 5 <-] 'f define
Program_redefine ==
    <<"[", "[", "2", "]", " ", "'", "f", " ", "d", "e", "f", "i", "n", "e",
      " ", "[", "9", "]", " ", "5", " ", "<", "-", "]", " ", "'", "f", " ",
      "d", "e", "f", "i", "n", "e">>
\* f
Program_call ==
    <<"f">>
\* [1 2 3] [$x dup *] map
Program_map_local ==
    <<"[", "1", " ", "2", " ", "3", "]", " ", "[", "$", "x", " ", "d", "u",
      "p", " ", "*", "]", " ", "m", "a", "p">>
\* [1 2 3] [(x) $x dup *] map
Program_map_capture ==
    <<"[", "1", " ", "2", " ", "3", "]", " ", "[", "(", "x", ")", " ", "$",
      "x", " ", "d", "u", "p", " ", "*", "]", " ", "m", "a", "p">>
\* [1 2 3] [dup *] map
Program_map ==
    <<"[", "1", " ", "2", " ", "3", "]", " ", "[", "d", "u", "p", " ", "*",
      "]", " ", "m", "a", "p">>
\* [1 2 3] 0 (i) [$i 3 <] [$i print $i 1 + (i)] while
Program_while ==
    <<"[", "1", " ", "2", " ", "3", "]", " ", "0", " ", "(", "i", ")", " ",
      "[", "$", "i", " ", "3", " ", "<", "]", " ", "[", "$", "i", " ", "p",
      "r", "i", "n", "t", " ", "$", "i", " ", "1", " ", "+", " ", "(", "i",
      ")", "]", " ", "w", "h", "i", "l", "e">>
\* 5 (x) $x $x +
Program_capture ==
    <<"5", " ", "(", "x", ")", " ", "$", "x", " ", "$", "x", " ", "+">>
\* 1 2 3 (a b a) $a $b
Program_capture_twice ==
    <<"1", " ", "2", " ", "3", " ", "(", "a", " ", "b", " ", "a", ")", " ",
      "$", "a", " ", "$", "b">>
\* [1 "a"] sort
Program_sort_mismatch ==
    <<"[", "1", " ", "\"", "a", "\"", "]", " ", "s", "o", "r", "t">>
\* [3 1 2] (l) $l sort $l
Program_sort_local ==
    <<"[", "3", " ", "1", " ", "2", "]", " ", "(", "l", ")", " ", "$", "l",
      " ", "s", "o", "r", "t", " ", "$", "l">>
\* [3 1] dup 'g define sort g
Program_shared_body ==
    <<"[", "3", " ", "1", "]", " ", "d", "u", "p", " ", "'", "g", " ", "d",
      "e", "f", "i", "n", "e", " ", "s", "o", "r", "t", " ", "g">>
\* [[2 1]] dup 0 @ to-tuple
Program_shared_element ==
    <<"[", "[", "2", " ", "1", "]", "]", " ", "d", "u", "p", " ", "0", " ",
      "@", " ", "t", "o", "-", "t", "u", "p", "l", "e">>
\* "ab" dup "c" ^ [1] (l) $l $l <-
Program_shared_slot ==
    <<"\"", "a", "b", "\"", " ", "d", "u", "p", " ", "\"", "c", "\"", " ",
      "^", " ", "[", "1", "]", " ", "(", "l", ")", " ", "$", "l", " ", "$",
      "l", " ", "<", "-">>
\* '(a) 'q "ab" # . [1 prin] eval [2 print] up-eval zz
Program_words ==
    <<"'", "(", "a", ")", " ", "'", "q", " ", "\"", "a", "b", "\"", " ", "#",
      " ", ".", " ", "[", "1", " ", "p", "r", "i", "n", "]", " ", "e", "v",
      "a", "l", " ", "[", "2", " ", "p", "r", "i", "n", "t", "]", " ", "u",
      "p", "-", "e", "v", "a", "l", " ", "z", "z">>
\* 1 0 /
Program_divide ==
    <<"1", " ", "0", " ", "/">>
\* 7 [] [5] to-tuple <- eval
Program_wild ==
    <<"7", " ", "[", "]", " ", "[", "5", "]", " ", "t", "o", "-", "t", "u",
      "p", "l", "e", " ", "<", "-", " ", "e", "v", "a", "l">>

\* the sessions: in a session repl() reads MaxLines lines, each any line of
\* the session's set
\* further lines typed at the prompt, by name
Lines ==
    [
      \* ["b" 'a "ab"] sort
      sort_words |->
         <<"[", "\"", "b", "\"", " ", "'", "a", " ", "\"", "a", "b", "\"",
           "]", " ", "s", "o", "r", "t">>,
      \* [] [1 2] <- [3] <- '(x) <- sort
      sort_fresh |->
         <<"[", "]", " ", "[", "1", " ", "2", "]", " ", "<", "-", " ", "[",
           "3", "]", " ", "<", "-", " ", "'", "(", "x", ")", " ", "<", "-",
           " ", "s", "o", "r", "t">>,
      \* [(a) [1 2]] sort
      sort_nested |->
         <<"[", "(", "a", ")", " ", "[", "1", " ", "2", "]", "]", " ", "s",
           "o", "r", "t">>,
      \* 2 2 ==
      cmp_eq |->
         <<"2", " ", "2", " ", "=", "=">>,
      \* 1 2 !=
      cmp_ne |->
         <<"1", " ", "2", " ", "!", "=">>,
      \* 1 2 <
      cmp_lt |->
         <<"1", " ", "2", " ", "<">>,
      \* 2 2 <=
      cmp_le |->
         <<"2", " ", "2", " ", "<", "=">>,
      \* 2 1 >
      cmp_gt |->
         <<"2", " ", "1", " ", ">">>,
      \* 1 2 >=
      cmp_ge |->
         <<"1", " ", "2", " ", ">", "=">>,
      \* "ab" 'b < "a" "ab" >=
      cmp_text |->
         <<"\"", "a", "b", "\"", " ", "'", "b", " ", "<", " ", "\"", "a",
           "\"", " ", "\"", "a", "b", "\"", " ", ">", "=">>,
      \* [1 2] [3 4] == [5] '(a b) <
      cmp_lists |->
         <<"[", "1", " ", "2", "]", " ", "[", "3", " ", "4", "]", " ", "=",
           "=", " ", "[", "5", "]", " ", "'", "(", "a", " ", "b", ")", " ",
           "<">>,
      \* 1 2 < 1 1 == < 1 2 > 1 1 == <
      cmp_bools |->
         <<"1", " ", "2", " ", "<", " ", "1", " ", "1", " ", "=", "=", " ",
           "<", " ", "1", " ", "2", " ", ">", " ", "1", " ", "1", " ", "=",
           "=", " ", "<">>,
      \* [1 2 3 4] 2 @ [1 2 3 4] -1 @ [1 2] 5 @
      at_list |->
         <<"[", "1", " ", "2", " ", "3", " ", "4", "]", " ", "2", " ", "@",
           " ", "[", "1", " ", "2", " ", "3", " ", "4", "]", " ", "-", "1",
           " ", "@", " ", "[", "1", " ", "2", "]", " ", "5", " ", "@">>,
      \* [1 2] -3 @ [1 2] -2 @ [1 2] 2 @ '(a b) 1 @
      at_edges |->
         <<"[", "1", " ", "2", "]", " ", "-", "3", " ", "@", " ", "[", "1",
           " ", "2", "]", " ", "-", "2", " ", "@", " ", "[", "1", " ", "2",
           "]", " ", "2", " ", "@", " ", "'", "(", "a", " ", "b", ")", " ",
           "1", " ", "@">>,
      \* "abc" 1 @ "abc" -1 @ "abc" 3 @ "" 0 @
      at_string |->
         <<"\"", "a", "b", "c", "\"", " ", "1", " ", "@", " ", "\"", "a",
           "b", "c", "\"", " ", "-", "1", " ", "@", " ", "\"", "a", "b",
           "c", "\"", " ", "3", " ", "@", " ", "\"", "\"", " ", "0", " ",
           "@">>,
      \* "ab" "cd" ^
      cat_strings |->
         <<"\"", "a", "b", "\"", " ", "\"", "c", "d", "\"", " ", "^">>,
      \* "ab" [1 2] ^
      cat_mixed |->
         <<"\"", "a", "b", "\"", " ", "[", "1", " ", "2", "]", " ", "^">>,
      \* [1 2] [3] ^ '(a) '(b) ^ 'ab 'c ^
      cat_lists |->
         <<"[", "1", " ", "2", "]", " ", "[", "3", "]", " ", "^", " ", "'",
           "(", "a", ")", " ", "'", "(", "b", ")", " ", "^", " ", "'", "a",
           "b", " ", "'", "c", " ", "^">>,
      \* [] [(a)] ^ [1] ^
      cat_fresh |->
         <<"[", "]", " ", "[", "(", "a", ")", "]", " ", "^", " ", "[", "1",
           "]", " ", "^">>,
      \* [(a)] [1] ^
      cat_nested |->
         <<"[", "(", "a", ")", "]", " ", "[", "1", "]", " ", "^">>,
      \* [7] (l) [1 2] [(i) $l] map $i
      up_locals |->
         <<"[", "7", "]", " ", "(", "l", ")", " ", "[", "1", " ", "2", "]",
           " ", "[", "(", "i", ")", " ", "$", "l", "]", " ", "m", "a", "p",
           " ", "$", "i">>,
      \* ['(a)] 1 <-
      copy_quoted |->
         <<"[", "'", "(", "a", ")", "]", " ", "1", " ", "<", "-">>,
      \* [1] dup ^ dup <- dup ^
      self_join |->
         <<"[", "1", "]", " ", "d", "u", "p", " ", "^", " ", "d", "u", "p",
           " ", "<", "-", " ", "d", "u", "p", " ", "^">>,
      \* [7] '+ define 1 2 +
      define_native |->
         <<"[", "7", "]", " ", "'", "+", " ", "d", "e", "f", "i", "n", "e",
           " ", "1", " ", "2", " ", "+">>,
      \* 1 "a" +
      bad_math |->
         <<"1", " ", "\"", "a", "\"", " ", "+">>,
      \* 1 +
      few_math |->
         <<"1", " ", "+">>,
      \* [1] 1 >=
      bad_compare |->
         <<"[", "1", "]", " ", "1", " ", ">", "=">>,
      \* 1 ==
      few_compare |->
         <<"1", " ", "=", "=">>,
      \* 1 "a" <
      mixed_compare |->
         <<"1", " ", "\"", "a", "\"", " ", "<">>,
      \* 1 sort
      bad_sort |->
         <<"1", " ", "s", "o", "r", "t">>,
      \* sort
      few_sort |->
         <<"s", "o", "r", "t">>,
      \* 1 'f define
      bad_define |->
         <<"1", " ", "'", "f", " ", "d", "e", "f", "i", "n", "e">>,
      \* [1] "f" define
      bad_name |->
         <<"[", "1", "]", " ", "\"", "f", "\"", " ", "d", "e", "f", "i",
           "n", "e">>,
      \* 'f define
      few_define |->
         <<"'", "f", " ", "d", "e", "f", "i", "n", "e">>,
      \* 1 [2] if
      bad_if |->
         <<"1", " ", "[", "2", "]", " ", "i", "f">>,
      \* [1] if
      few_if |->
         <<"[", "1", "]", " ", "i", "f">>,
      \* [1] 2 while
      bad_while |->
         <<"[", "1", "]", " ", "2", " ", "w", "h", "i", "l", "e">>,
      \* [1 1 ==] [10] if-else
      few_if_else |->
         <<"[", "1", " ", "1", " ", "=", "=", "]", " ", "[", "1", "0", "]",
           " ", "i", "f", "-", "e", "l", "s", "e">>,
      \* 1 [2] [3] if-else
      bad_if_else |->
         <<"1", " ", "[", "2", "]", " ", "[", "3", "]", " ", "i", "f", "-",
           "e", "l", "s", "e">>,
      \* 1 eval
      bad_eval |->
         <<"1", " ", "e", "v", "a", "l">>,
      \* eval
      few_eval |->
         <<"e", "v", "a", "l">>,
      \* 'a up-eval
      bad_up_eval |->
         <<"'", "a", " ", "u", "p", "-", "e", "v", "a", "l">>,
      \* prin
      few_prin |->
         <<"p", "r", "i", "n">>,
      \* print
      few_print |->
         <<"p", "r", "i", "n", "t">>,
      \* 1 #
      bad_length |->
         <<"1", " ", "#">>,
      \* #
      few_length |->
         <<"#">>,
      \* 1 2 <-
      bad_append |->
         <<"1", " ", "2", " ", "<", "-">>,
      \* [1] <-
      few_append |->
         <<"[", "1", "]", " ", "<", "-">>,
      \* [1] "a" @
      bad_at |->
         <<"[", "1", "]", " ", "\"", "a", "\"", " ", "@">>,
      \* 1 0 @
      bad_indexed |->
         <<"1", " ", "0", " ", "@">>,
      \* @
      few_at |->
         <<"@">>,
      \* 1 2 ^
      bad_join |->
         <<"1", " ", "2", " ", "^">>,
      \* [1] ^
      few_join |->
         <<"[", "1", "]", " ", "^">>,
      \* "a" to-tuple
      bad_to_tuple |->
         <<"\"", "a", "\"", " ", "t", "o", "-", "t", "u", "p", "l", "e">>,
      \* to-tuple
      few_to_tuple |->
         <<"t", "o", "-", "t", "u", "p", "l", "e">>,
      \* up-eval
      few_up_eval |->
         <<"u", "p", "-", "e", "v", "a", "l">>,
      \* [1] while
      few_while |->
         <<"[", "1", "]", " ", "w", "h", "i", "l", "e">>,
      \* [1 1 ==] [7] if
      if_true |->
         <<"[", "1", " ", "1", " ", "=", "=", "]", " ", "[", "7", "]", " ",
           "i", "f">>,
      \* [1 2 ==] [7] if
      if_false |->
         <<"[", "1", " ", "2", " ", "=", "=", "]", " ", "[", "7", "]", " ",
           "i", "f">>,
      \* [1] [7] if
      if_int |->
         <<"[", "1", "]", " ", "[", "7", "]", " ", "i", "f">>,
      \* [1 1 1 ==] [7] if
      if_extra |->
         <<"[", "1", " ", "1", " ", "1", " ", "=", "=", "]", " ", "[", "7",
           "]", " ", "i", "f">>,
      \* 5 5 [==] [7] if
      if_consumes |->
         <<"5", " ", "5", " ", "[", "=", "=", "]", " ", "[", "7", "]", " ",
           "i", "f">>,
      \* 1 1 == [] [7] if
      if_stale |->
         <<"1", " ", "1", " ", "=", "=", " ", "[", "]", " ", "[", "7", "]",
           " ", "i", "f">>,
      \* [] [7] if
      if_empty |->
         <<"[", "]", " ", "[", "7", "]", " ", "i", "f">>,
      \* 9 (x) 3 4 dup
      dup_top |->
         <<"9", " ", "(", "x", ")", " ", "3", " ", "4", " ", "d", "u", "p">>,
      \* 9 (x) 8 (y) 3 4 5 swap
      swap_top |->
         <<"9", " ", "(", "x", ")", " ", "8", " ", "(", "y", ")", " ", "3",
           " ", "4", " ", "5", " ", "s", "w", "a", "p">>,
      \* 9 (_) 3 4 drop
      drop_top |->
         <<"9", " ", "(", "_", ")", " ", "3", " ", "4", " ", "d", "r", "o",
           "p">>,
      \* 9 (x) dup
      dup_none |->
         <<"9", " ", "(", "x", ")", " ", "d", "u", "p">>,
      \* 9 (x) 8 (y) 3 swap
      swap_one |->
         <<"9", " ", "(", "x", ")", " ", "8", " ", "(", "y", ")", " ", "3",
           " ", "s", "w", "a", "p">>,
      \* 9 (_) drop
      drop_none |->
         <<"9", " ", "(", "_", ")", " ", "d", "r", "o", "p">>,
      \* [1 2] [dup *] map
      map_list |->
         <<"[", "1", " ", "2", "]", " ", "[", "d", "u", "p", " ", "*", "]",
           " ", "m", "a", "p">>,
      \* [1 2] [print] each
      each_list |->
         <<"[", "1", " ", "2", "]", " ", "[", "p", "r", "i", "n", "t", "]",
           " ", "e", "a", "c", "h">>,
      \* [1 2] head
      head_list |->
         <<"[", "1", " ", "2", "]", " ", "h", "e", "a", "d">>,
      \* [1 2] tail
      tail_list |->
         <<"[", "1", " ", "2", "]", " ", "t", "a", "i", "l">>,
      \* 4 (y) 3 $x
      no_local |->
         <<"4", " ", "(", "y", ")", " ", "3", " ", "$", "x">>,
      \* 4 (y) 3 zz
      no_word |->
         <<"4", " ", "(", "y", ")", " ", "3", " ", "z", "z">>,
      \* 4 (y) 3 (a b)
      short_capture |->
         <<"4", " ", "(", "y", ")", " ", "3", " ", "(", "a", " ", "b", ")">>,
      \* [] [5] to-tuple <- eval
      wild_capture |->
         <<"[", "]", " ", "[", "5", "]", " ", "t", "o", "-", "t", "u", "p",
           "l", "e", " ", "<", "-", " ", "e", "v", "a", "l">>,
      \* 5 (x) [$x] 'f define f
      body_unbound |->
         <<"5", " ", "(", "x", ")", " ", "[", "$", "x", "]", " ", "'", "f",
           " ", "d", "e", "f", "i", "n", "e", " ", "f">>,
      \* 5 (x) [(x) $x dup] 'f define 7 f $x
      body_capture |->
         <<"5", " ", "(", "x", ")", " ", "[", "(", "x", ")", " ", "$", "x",
           " ", "d", "u", "p", "]", " ", "'", "f", " ", "d", "e", "f", "i",
           "n", "e", " ", "7", " ", "f", " ", "$", "x">>,
      \* ['(a) 'b] 'f define f f
      quote_twice |->
         <<"[", "'", "(", "a", ")", " ", "'", "b", "]", " ", "'", "f", " ",
           "d", "e", "f", "i", "n", "e", " ", "f", " ", "f">>,
      \* [] [] [] to-tuple <- to-tuple <- dup 1 <- eval
      quote_nested |->
         <<"[", "]", " ", "[", "]", " ", "[", "]", " ", "t", "o", "-", "t",
           "u", "p", "l", "e", " ", "<", "-", " ", "t", "o", "-", "t", "u",
           "p", "l", "e", " ", "<", "-", " ", "d", "u", "p", " ", "1", " ",
           "<", "-", " ", "e", "v", "a", "l">>,
      \* [zz] [7] if
      if_cond_fails |->
         <<"[", "z", "z", "]", " ", "[", "7", "]", " ", "i", "f">>,
      \* [1 1 ==] [zz] if
      if_arm_fails |->
         <<"[", "1", " ", "1", " ", "=", "=", "]", " ", "[", "z", "z", "]",
           " ", "i", "f">>,
      \* [1 1 ==] dup if
      if_same |->
         <<"[", "1", " ", "1", " ", "=", "=", "]", " ", "d", "u", "p", " ",
           "i", "f">>,
      \* [1 1 ==] [] 7 <- if
      if_fresh |->
         <<"[", "1", " ", "1", " ", "=", "=", "]", " ", "[", "]", " ", "7",
           " ", "<", "-", " ", "i", "f">>,
      \* [zz] [7] while
      while_cond_fails |->
         <<"[", "z", "z", "]", " ", "[", "7", "]", " ", "w", "h", "i", "l",
           "e">>,
      \* [1] [7] while
      while_int |->
         <<"[", "1", "]", " ", "[", "7", "]", " ", "w", "h", "i", "l", "e">>,
      \* [1 1 ==] [zz] while
      while_body_fails |->
         <<"[", "1", " ", "1", " ", "=", "=", "]", " ", "[", "z", "z", "]",
           " ", "w", "h", "i", "l", "e">>,
      \* [1 2 ==] [] 7 <- while
      while_fresh |->
         <<"[", "1", " ", "2", " ", "=", "=", "]", " ", "[", "]", " ", "7",
           " ", "<", "-", " ", "w", "h", "i", "l", "e">>,
      \* [9] [zz] [7] if-else
      else_cond_fails |->
         <<"[", "9", "]", " ", "[", "z", "z", "]", " ", "[", "7", "]", " ",
           "i", "f", "-", "e", "l", "s", "e">>,
      \* [9] [1] [7] if-else
      else_int |->
         <<"[", "9", "]", " ", "[", "1", "]", " ", "[", "7", "]", " ", "i",
           "f", "-", "e", "l", "s", "e">>,
      \* [9] [1 1 ==] [zz] if-else
      else_arm_fails |->
         <<"[", "9", "]", " ", "[", "1", " ", "1", " ", "=", "=", "]", " ",
           "[", "z", "z", "]", " ", "i", "f", "-", "e", "l", "s", "e">>,
      \* [9] [1 2 ==] [7] if-else
      else_false |->
         <<"[", "9", "]", " ", "[", "1", " ", "2", " ", "=", "=", "]", " ",
           "[", "7", "]", " ", "i", "f", "-", "e", "l", "s", "e">>,
      \* [1] 'g define [2] 'g define g
      define_twice |->
         <<"[", "1", "]", " ", "'", "g", " ", "d", "e", "f", "i", "n", "e",
           " ", "[", "2", "]", " ", "'", "g", " ", "d", "e", "f", "i", "n",
           "e", " ", "g">>,
      \* [3] 'h define [4] 'k define h k
      define_new |->
         <<"[", "3", "]", " ", "'", "h", " ", "d", "e", "f", "i", "n", "e",
           " ", "[", "4", "]", " ", "'", "k", " ", "d", "e", "f", "i", "n",
           "e", " ", "h", " ", "k">>
    ]

MaxLines == 2
Sessions ==
    <<{Program_if_else},
      {Program_redefine, Program_call},
      {Program_map_local},
      {Program_map},
      {Program_map_capture},
      {Program_while},
      {Program_capture, Program_capture_twice},
      {Program_sort_mismatch, Program_sort_local},
      {Program_shared_body},
      {Program_shared_element},
      {Program_shared_slot},
      {Program_words},
      {Program_divide},
      {Program_wild},
      {Lines.sort_words, Lines.sort_fresh},
      {Lines.sort_nested},
      {Lines.cmp_eq, Lines.cmp_ne, Lines.cmp_lt},
      {Lines.cmp_le, Lines.cmp_gt, Lines.cmp_ge},
      {Lines.cmp_text, Lines.cmp_lists, Lines.cmp_bools},
      {Lines.at_list},
      {Lines.at_edges, Lines.at_string},
      {Lines.cat_strings, Lines.cat_mixed},
      {Lines.cat_lists, Lines.cat_fresh},
      {Lines.cat_nested},
      {Lines.up_locals},
      {Lines.copy_quoted},
      {Lines.self_join},
      {Lines.define_native},
      {Lines.bad_math, Lines.few_math, Lines.bad_compare},
      {Lines.few_compare, Lines.mixed_compare, Lines.bad_sort},
      {Lines.few_sort, Lines.bad_define, Lines.bad_name},
      {Lines.few_define, Lines.bad_if, Lines.few_if},
      {Lines.bad_while, Lines.few_if_else, Lines.bad_if_else},
      {Lines.bad_eval, Lines.few_eval, Lines.bad_up_eval},
      {Lines.few_prin, Lines.few_print, Lines.bad_length},
      {Lines.few_length, Lines.bad_append, Lines.few_append},
      {Lines.bad_at, Lines.bad_indexed, Lines.few_at},
      {Lines.bad_join, Lines.few_join, Lines.bad_to_tuple},
      {Lines.few_to_tuple, Lines.few_up_eval, Lines.few_while},
      {Lines.if_true, Lines.if_false, Lines.if_int},
      {Lines.if_extra, Lines.if_consumes},
      {Lines.if_stale, Lines.if_empty},
      {Lines.dup_top, Lines.swap_top, Lines.drop_top},
      {Lines.dup_none, Lines.swap_one, Lines.drop_none},
      {Lines.map_list, Lines.each_list},
      {Lines.head_list, Lines.tail_list},
      {Lines.no_local, Lines.no_word, Lines.short_capture},
      {Lines.wild_capture},
      {Lines.body_unbound, Lines.body_capture},
      {Lines.quote_twice},
      {Lines.quote_nested},
      {Lines.if_cond_fails, Lines.if_arm_fails, Lines.if_same},
      {Lines.if_fresh, Lines.while_fresh},
      {Lines.while_cond_fails, Lines.while_int, Lines.while_body_fails},
      {Lines.else_cond_fails, Lines.else_int, Lines.else_arm_fails},
      {Lines.else_false},
      {Lines.define_twice, Lines.define_new}>>

(* -- the interpreter state ---------------------------------------------- *)
VARIABLES
    heap,          \* the catis_objects ever allocated; a pointer is an index
    stack,         \* context->stack[0 .. stack_length-1]
    frames,        \* the stackframes ever allocated
    frame,         \* context->frame
    procedure,     \* context->procedure, the procedure table
    ctl,           \* the C activations in progress, the innermost last
    ret,           \* the value the activation that just ended returned
    error_string,  \* context->error_string: the last message of set_error
    output,        \* the bytes prin and print have written
    crashed,       \* the process was killed (a fault, an abort)
    session,       \* which set of lines this run of repl() is fed from
    nlines,        \* how many lines repl() has read
    buffer,        \* repl's buffer: the line in brackets
    source,        \* a source text given to the reader on its own
    parsed         \* what the reader returned for it

vars == <<heap, stack, frames, frame, procedure, ctl, ret, error_string,
          output, crashed, session, nlines, buffer, source, parsed>>
reader == <<source, parsed>>

NoReturn == -1
NotParsed == [object |-> NULL, next |-> 0, error |-> "not parsed"]

\* one C activation.  k names the function and the point it waits at:
\*   "repl"      repl(), inside eval(context, program)
\*   "eval"      eval(), at element i (from 1) of list
\*   "call"      eval(), inside eval(context, procedure->procedure)
\*   "if"        library_if, inside the eval named by pc
\*   "lib_eval"  library_eval, inside eval(context, list)
\*   "up_eval"   library_up_eval, inside eval(context, list)
\* previous is eval's local `previous` (a procedure for a built-in, a frame
\* for a call).  entry is history kept for the properties: the stack
\* as library_if found it.
Activation(k) ==
    [k |-> k, list |-> NULL, i |-> 0, previous |-> NULL, pc |-> "",
     name |-> <<>>, condition |-> NULL, if_branch |-> NULL,
     else_branch |-> NULL, is_while |-> FALSE, is_else |-> FALSE,
     saved |-> NULL, entry |-> <<>>]
EvalOf(list) == [Activation("eval") EXCEPT !.list = list, !.i = 1]

Top == ctl[Len(ctl)]
Pop(c) == SubSeq(c, 1, Len(c) - 1)
Advance(c) == [c EXCEPT ![Len(c)].i = @ + 1]

\* new_interpreter (main.c:701-709)
Init ==
    /\ heap = load_library.heap
    /\ procedure = load_library.procedure
    /\ stack = <<>>
    /\ frames = <<new_stackframe(NULL)>>
    /\ frame = 1
    /\ ctl = <<>>
    /\ ret = NoReturn
    /\ error_string = NoError
    /\ output = <<>>
    /\ crashed = FALSE
    /\ session \in 1..Len(Sessions)
    /\ nlines = 0
    /\ buffer = <<>>
    /\ source = <<>>
    /\ parsed = NotParsed

(* -- repl (main.c:1388-1424) -------------------------------------------- *)
\* one turn of the loop up to the call of eval: read a line, wrap it in
\* brackets and parse it; a line that does not parse is reported and dropped
ReadLine ==
    /\ ~crashed /\ ctl = <<>> /\ nlines < MaxLines
    /\ \E line \in Sessions[session] :
         LET r == parse_object(heap, <<"[">> \o line \o <<"]">>, 1)
         IN  /\ buffer' = <<"[">> \o line \o <<"]">>
             /\ heap' = r.heap
             /\ error_string' = IF r.error # NoError THEN r.error ELSE error_string
             /\ ctl' = IF r.object = NULL THEN <<>>
                       ELSE <<[Activation("repl") EXCEPT !.list = r.object],
                              EvalOf(r.object)>>
    /\ nlines' = nlines + 1
    /\ ret' = NoReturn
    /\ UNCHANGED <<stack, frames, frame, procedure, output, crashed, session,
                   reader>>

\* eval returned to repl: release(program)
ReplReturn ==
    /\ ~crashed /\ ctl # <<>> /\ Top.k = "repl" /\ ret # NoReturn
    /\ heap' = release(heap, Top.list)
    /\ ctl' = <<>>
    /\ ret' = NoReturn
    /\ UNCHANGED <<stack, frames, frame, procedure, error_string, output,
                   crashed, session, nlines, buffer, reader>>

(* -- eval (main.c:764-868) ---------------------------------------------- *)
AtElement ==
    /\ ~crashed /\ ctl # <<>> /\ ret = NoReturn
    /\ Top.k = "eval" /\ Top.i <= Len(heap[Top.list].element)
Element == heap[Top.list].element[Top.i]

\* eval goes on to the next element, or returns the error (`return error`)
Continue(c, error) ==
    IF error # 0 THEN ctl' = Pop(c) /\ ret' = error
    ELSE ctl' = Advance(c) /\ ret' = NoReturn

\* eval leaves its loop: return 0
EvalReturn ==
    /\ ~crashed /\ ctl # <<>> /\ ret = NoReturn
    /\ Top.k = "eval" /\ Top.i > Len(heap[Top.list].element)
    /\ ctl' = Pop(ctl)
    /\ ret' = 0
    /\ UNCHANGED <<heap, stack, frames, frame, procedure, error_string,
                   output, crashed, session, nlines, buffer, reader>>

\* a quoted tuple: push a copy with the flag cleared
EvalQuotedTuple ==
    /\ AtElement
    /\ heap[Element].type = CATIS_TYPE_TUPLE /\ heap[Element].quoted # 0
    /\ \E u \in Uninitialised :
         LET c == deep_copy(heap, Element, u)
         IN  /\ heap' = [c.heap EXCEPT ![c.object].quoted = 0]
             /\ stack' = stack_push(stack, c.object)
    /\ Continue(ctl, 0)
    /\ UNCHANGED <<frames, frame, procedure, error_string, output, crashed,
                   session, nlines, buffer, reader>>

\* the loop of a capture taking the values from the top down: a wrong
\* variant, which the property of C9 must tell from capture
RECURSIVE capture_reversed(_, _, _, _, _)
capture_reversed(h, locals, indexes, values, k) ==
    IF k > Len(indexes) THEN [heap |-> h, locals |-> locals]
    ELSE LET index == indexes[k]
             old == IF index \in DOMAIN locals THEN locals[index] ELSE NULL
         IN  capture_reversed(release(h, old),
                              SetLocal(locals, index,
                                       values[Len(indexes) - k + 1]),
                              indexes, values, k + 1)

\* the loop of a capture: slot by slot, release the old value and take the
\* stack entry; indexes are the bytes read as `index`, values the entries
\* above the new stack_length
RECURSIVE capture(_, _, _, _, _)
capture(h, locals, indexes, values, k) ==
    IF k > Len(indexes) THEN [heap |-> h, locals |-> locals]
    ELSE LET index == indexes[k]
             old == IF index \in DOMAIN locals THEN locals[index] ELSE NULL
         IN  capture(release(h, old), SetLocal(locals, index, values[k]),
                     indexes, values, k + 1)

\* an unquoted tuple: capture variables.  The loop, and the error message,
\* read string_or_symbol.pointer of an element.  An element that holds no
\* bytes (an Int, a Bool, a List or a Tuple, which to-tuple can put there)
\* has other fields of the union in that place: the read is of a wild
\* pointer, which faults or gives whatever byte lies there.
HasBytes(h, o) == h[o].type \in {CATIS_TYPE_SYMBOL, CATIS_TYPE_STRING}
Fault == "fault"
WildRead == {Fault, "x", "~"}
EvalCapture ==
    /\ AtElement
    /\ heap[Element].type = CATIS_TYPE_TUPLE /\ heap[Element].quoted = 0
    /\ \E wild \in WildRead :
         LET es == heap[Element].element
             n == Len(es)
             \* the elements whose pointer is read
             read == IF Len(stack) < n THEN {Len(stack) + 1} ELSE 1..n
             indexes == [k \in 1..n |->
                           IF HasBytes(heap, es[k])
                           THEN At(heap[es[k]].pointer, 1) ELSE wild]
         IN  IF wild = Fault /\ \E k \in read : ~HasBytes(heap, es[k])
             THEN /\ crashed' = TRUE
                  /\ UNCHANGED <<heap, stack, frames, ctl, ret, error_string>>
             ELSE IF Len(stack) < n
             THEN /\ error_string' = "Out of stack while capturing local"
                  /\ Continue(ctl, 1)
                  /\ UNCHANGED <<heap, stack, frames, crashed>>
             ELSE LET c == capture(heap, frames[frame].locals, indexes,
                                   SubSeq(stack, Len(stack) - n + 1, Len(stack)),
                                   1)
                  IN  /\ stack' = stack_drop(stack, n)
                      /\ heap' = c.heap
                      /\ frames' = [frames EXCEPT ![frame].locals = c.locals]
                      /\ Continue(ctl, 0)
                      /\ UNCHANGED <<error_string, crashed>>
    /\ UNCHANGED <<frame, procedure, output, session, nlines, buffer, reader>>

\* a quoted symbol: push a copy with the flag cleared
EvalQuotedSymbol ==
    /\ AtElement
    /\ heap[Element].type = CATIS_TYPE_SYMBOL /\ heap[Element].quoted # 0
    /\ LET c == deep_copy(heap, Element, 0)
       IN  /\ heap' = [c.heap EXCEPT ![c.object].quoted = 0]
           /\ stack' = stack_push(stack, c.object)
    /\ Continue(ctl, 0)
    /\ UNCHANGED <<frames, frame, procedure, error_string, output, crashed,
                   session, nlines, buffer, reader>>

\* $x: push the local, or fail when the slot is NULL
EvalLocal ==
    /\ AtElement
    /\ heap[Element].type = CATIS_TYPE_SYMBOL /\ heap[Element].quoted = 0
    /\ At(heap[Element].pointer, 1) = "$"
    /\ LET index == At(heap[Element].pointer, 2)
           local == Local(frames[frame], index)
       IN  IF local = NULL
           THEN /\ error_string' = "Unbound local variable"
                /\ Continue(ctl, 1)
                /\ UNCHANGED <<heap, stack>>
           ELSE /\ stack' = stack_push(stack, local)
                /\ heap' = retain(heap, local)
                /\ Continue(ctl, 0)
                /\ UNCHANGED error_string
    /\ UNCHANGED <<frames, frame, procedure, output, crashed, session, nlines, buffer, reader>>

\* any other symbol names a procedure
IsCall ==
    /\ AtElement
    /\ heap[Element].type = CATIS_TYPE_SYMBOL /\ heap[Element].quoted = 0
    /\ At(heap[Element].pointer, 1) # "$"
Callee == lookup_procedure(procedure, heap[Element].pointer)
Called(c_procedure) ==
    IsCall /\ Callee # NULL /\ procedure[Callee].c_procedure = c_procedure

EvalUnbound ==
    /\ IsCall /\ Callee = NULL
    /\ error_string' = "Symbol nout bound to procedure"
    /\ Continue(ctl, 1)
    /\ UNCHANGED <<heap, stack, frames, frame, procedure, output, crashed,
                   session, nlines, buffer, reader>>

\* a call whose frame begins with the locals of the caller's: a wrong
\* variant, which the property of C29 must tell from EvalCall
EvalCall_inherited ==
    /\ Called(NoFunction)
    /\ frames' = Append(frames, [new_stackframe(frame) EXCEPT
                                    !.procedure = Callee,
                                    !.locals = frames[frame].locals])
    /\ frame' = Len(frames) + 1
    /\ ctl' = ctl \o <<[Activation("call") EXCEPT !.previous = frame],
                       EvalOf(procedure[Callee].procedure)>>
    /\ ret' = NoReturn
    /\ UNCHANGED <<heap, stack, procedure, error_string, output, crashed,
                   session, nlines, buffer, reader>>
\* a catis procedure: a new frame, then eval of its body
EvalCall ==
    /\ Called(NoFunction)
    /\ frames' = Append(frames, [new_stackframe(frame) EXCEPT !.procedure = Callee])
    /\ frame' = Len(frames) + 1
    /\ ctl' = ctl \o <<[Activation("call") EXCEPT !.previous = frame],
                       EvalOf(procedure[Callee].procedure)>>
    /\ ret' = NoReturn
    /\ UNCHANGED <<heap, stack, procedure, error_string, output, crashed,
                   session, nlines, buffer, reader>>

\* a return that leaves the callee's frame current when the body failed: a
\* wrong variant, which the property of C28 must tell from CallReturn
CallReturn_kept ==
    /\ ~crashed /\ ctl # <<>> /\ Top.k = "call" /\ ret # NoReturn
    /\ heap' = release_stackframe(heap, frames[frame])
    /\ frames' = [frames EXCEPT ![frame].freed = TRUE]
    /\ frame' = IF ret = 0 THEN Top.previous ELSE frame
    /\ Continue(Pop(ctl), ret)
    /\ UNCHANGED <<stack, procedure, error_string, output, crashed, session,
                   nlines, buffer, reader>>
\* the body returned: release the frame, go back to the caller's
CallReturn ==
    /\ ~crashed /\ ctl # <<>> /\ Top.k = "call" /\ ret # NoReturn
    /\ heap' = release_stackframe(heap, frames[frame])
    /\ frames' = [frames EXCEPT ![frame].freed = TRUE]
    /\ frame' = Top.previous
    /\ Continue(Pop(ctl), ret)
    /\ UNCHANGED <<stack, procedure, error_string, output, crashed, session,
                   nlines, buffer, reader>>

\* every other element: push it and retain it
EvalLiteral ==
    /\ AtElement
    /\ heap[Element].type \notin {CATIS_TYPE_TUPLE, CATIS_TYPE_SYMBOL}
    /\ stack' = stack_push(stack, Element)
    /\ heap' = retain(heap, Element)
    /\ Continue(ctl, 0)
    /\ UNCHANGED <<frames, frame, procedure, error_string, output, crashed,
                   session, nlines, buffer, reader>>

(* -- the built-ins as eval calls them (main.c:837-845) ------------------- *)
\* a built-in that calls no eval runs to its end in one step; the frame's
\* procedure, set for the call and put back after it, is as before
Returned(r) ==
    /\ heap' = r.heap
    /\ stack' = r.stack
    /\ error_string' = IF r.error # NoError THEN r.error ELSE error_string
    /\ output' = output \o r.printed
    /\ Continue(ctl, r.return_value)
    /\ UNCHANGED <<frames, frame, crashed, session, nlines, buffer, reader>>

LibraryMath ==
    /\ Called("library_math")
    /\ LET name == procedure[Callee].name
           b == stack_peek(stack, 0)
           ok == check_stack_type(heap, stack,
                     <<{CATIS_TYPE_INT}, {CATIS_TYPE_INT}>>) = NoError
       IN  IF ok /\ name = <<"/">> /\ heap[b].integer = 0
           THEN \* an integer division by zero kills the process
                /\ crashed' = TRUE
                /\ UNCHANGED <<heap, stack, frames, frame, ctl, ret,
                               error_string, output, session, nlines, buffer, reader>>
           ELSE Returned(library_math(heap, stack, name))
    /\ UNCHANGED procedure

LibraryCompare ==
    /\ Called("library_compare")
    /\ Returned(library_compare(heap, stack, procedure[Callee].name))
    /\ UNCHANGED procedure

LibrarySort ==
    /\ Called("library_sort")
    /\ \E u \in Uninitialised :
         LET top == stack_peek(stack, 0)
             es == IF top # NULL /\ heap[top].type = CATIS_TYPE_LIST
                   THEN heap[top].element ELSE <<>>
         IN  \E order \in qsort(heap, es) :
                Returned(library_sort(heap, stack, u, order))
    /\ UNCHANGED procedure

\* library_define (main.c:1038-1047)
LibraryDefine ==
    /\ Called("library_define")
    /\ LET e == check_stack_type(heap, stack,
                    <<{CATIS_TYPE_LIST}, {CATIS_TYPE_SYMBOL}>>)
       IN  IF e # NoError
           THEN /\ Returned(Result(heap, stack, 1, e))
                /\ UNCHANGED procedure
           ELSE LET symbol == stack_peek(stack, 0)
                    program == stack_peek(stack, 1)
                    t == add_procedure(heap, procedure, heap[symbol].pointer,
                                       NoFunction, program)
                IN  /\ procedure' = t.procedure
                    /\ Returned(Result(release(t.heap, symbol),
                                       stack_drop(stack, 2), 0, NoError))

LibraryPrint ==
    /\ Called("library_print")
    /\ Returned(library_print(heap, stack))
    /\ UNCHANGED procedure

LibraryPrintln ==
    /\ Called("library_println")
    /\ Returned(library_println(heap, stack))
    /\ UNCHANGED procedure

LibraryLength ==
    /\ Called("library_length")
    /\ Returned(library_length(heap, stack))
    /\ UNCHANGED procedure

LibraryListAppend ==
    /\ Called("library_list_append")
    /\ \E u \in Uninitialised : Returned(library_list_append(heap, stack, u))
    /\ UNCHANGED procedure

LibraryAt ==
    /\ Called("library_at")
    /\ Returned(library_at(heap, stack))
    /\ UNCHANGED procedure

LibraryConcatenate ==
    /\ Called("library_concatenate")
    /\ \E u \in Uninitialised : Returned(library_concatenate(heap, stack, u))
    /\ UNCHANGED procedure

LibraryToTuple ==
    /\ Called("library_to_tuple")
    /\ \E u \in Uninitialised : Returned(library_to_tuple(heap, stack, u))
    /\ UNCHANGED procedure

\* library_show_stack only prints
LibraryShowStack ==
    /\ Called("library_show_stack")
    /\ Returned(Result(heap, stack, 0, NoError))
    /\ UNCHANGED procedure

(* -- the built-ins that call eval --------------------------------------- *)
\* eval sets the frame's procedure for the call
Entered == [frames EXCEPT ![frame].procedure = Callee]

\* library_if (main.c:1049-1110), up to its first eval
LibraryIf ==
    /\ Called("library_if")
    /\ LET name == procedure[Callee].name
           is_while == At(name, 1) = "w"
           is_else  == At(name, 3) = "e"
           List == {CATIS_TYPE_LIST}
           e == IF is_else THEN check_stack_type(heap, stack, <<List, List, List>>)
                ELSE check_stack_type(heap, stack, <<List, List>>)
       IN  IF e # NoError
           THEN /\ error_string' = e
                /\ Continue(ctl, 1)
                /\ UNCHANGED <<stack, frames>>
           ELSE LET else_branch == IF is_else THEN stack_peek(stack, 0) ELSE NULL
                    rest == IF is_else THEN stack_drop(stack, 1) ELSE stack
                    if_branch == stack_peek(rest, 0)
                    condition == stack_peek(rest, 1)
                IN  /\ stack' = stack_drop(rest, 2)
                    /\ frames' = Entered
                    /\ ctl' = ctl \o
                         <<[Activation("if") EXCEPT
                              !.previous = frames[frame].procedure,
                              !.pc = "condition", !.name = name,
                              !.condition = condition, !.if_branch = if_branch,
                              !.else_branch = else_branch,
                              !.is_while = is_while, !.is_else = is_else,
                              !.entry = stack],
                           EvalOf(condition)>>
                    /\ ret' = NoReturn
                    /\ UNCHANGED error_string
    /\ UNCHANGED <<heap, frame, procedure, output, crashed, session, nlines, buffer, reader>>

\* return_error / the end of library_if: release the three handles; eval
\* then puts the frame's procedure back
\* the end of library_if without release(if_branch): a wrong variant, which
\* the property of C31 must tell from LeaveIf
LeaveIf_leaked(h, return_value) ==
    /\ heap' = release(release(h, Top.condition), Top.else_branch)
    /\ frames' = [frames EXCEPT ![frame].procedure = Top.previous]
    /\ Continue(Pop(ctl), return_value)
LeaveIf(h, return_value) ==
    /\ heap' = release(release(release(h, Top.condition), Top.if_branch),
                       Top.else_branch)
    /\ frames' = [frames EXCEPT ![frame].procedure = Top.previous]
    /\ Continue(Pop(ctl), return_value)

\* library_if that evaluates the branch whatever the Bool: a wrong variant,
\* which the property of C21 must tell from LibraryIfCondition
LibraryIfCondition_always ==
    /\ ~crashed /\ ctl # <<>> /\ Top.k = "if" /\ Top.pc = "condition"
    /\ ret # NoReturn
    /\ LET e == check_stack_type(heap, stack, <<{CATIS_TYPE_BOOL}>>)
       IN  IF ret # 0
           THEN LeaveIf(heap, 1) /\ UNCHANGED <<stack, error_string>>
           ELSE IF e # NoError
           THEN LeaveIf(heap, 1) /\ error_string' = e /\ UNCHANGED stack
           ELSE /\ stack' = stack_drop(stack, 1)
                /\ UNCHANGED error_string
                /\ heap' = release(heap, stack_peek(stack, 0))
                /\ ctl' = [ctl EXCEPT ![Len(ctl)].pc = "if_branch"]
                          \o <<EvalOf(Top.if_branch)>>
                /\ ret' = NoReturn
                /\ UNCHANGED frames
    /\ UNCHANGED <<frame, procedure, output, crashed, session, nlines, buffer, reader>>
\* eval(context, condition) returned
LibraryIfCondition ==
    /\ ~crashed /\ ctl # <<>> /\ Top.k = "if" /\ Top.pc = "condition"
    /\ ret # NoReturn
    /\ LET e == check_stack_type(heap, stack, <<{CATIS_TYPE_BOOL}>>)
       IN  IF ret # 0
           THEN LeaveIf(heap, 1) /\ UNCHANGED <<stack, error_string>>
           ELSE IF e # NoError
           THEN LeaveIf(heap, 1) /\ error_string' = e /\ UNCHANGED stack
           ELSE LET conditional_result == stack_peek(stack, 0)
                    result == heap[conditional_result].boolean
                    h1 == release(heap, conditional_result)
                    branch == IF result # 0 THEN Top.if_branch ELSE Top.else_branch
                IN  /\ stack' = stack_drop(stack, 1)
                    /\ UNCHANGED error_string
                    /\ IF result # 0 \/ Top.is_else
                       THEN /\ heap' = h1
                            /\ ctl' = [ctl EXCEPT
                                 ![Len(ctl)].pc =
                                     IF result # 0 THEN "if_branch" ELSE "else_branch"]
                                 \o <<EvalOf(branch)>>
                            /\ ret' = NoReturn
                            /\ UNCHANGED frames
                       ELSE LeaveIf(h1, 0)
    /\ UNCHANGED <<frame, procedure, output, crashed, session, nlines, buffer, reader>>

\* a while that returns after its body as an if does: a wrong variant,
\* which the property of C7 must tell from LibraryIfBranch
LibraryIfBranch_once ==
    /\ ~crashed /\ ctl # <<>> /\ Top.k = "if" /\ Top.pc # "condition"
    /\ ret # NoReturn
    /\ LeaveIf(heap, IF ret # 0 THEN 1 ELSE 0)
    /\ UNCHANGED <<stack, frame, procedure, error_string, output, crashed,
                   session, nlines, buffer, reader>>

\* eval(context, if_branch) or eval(context, else_branch) returned
LibraryIfBranch ==
    /\ ~crashed /\ ctl # <<>> /\ Top.k = "if" /\ Top.pc # "condition"
    /\ ret # NoReturn
    /\ IF ret # 0 THEN LeaveIf(heap, 1)
       ELSE IF Top.pc = "if_branch" /\ Top.is_while
       THEN /\ ctl' = [ctl EXCEPT ![Len(ctl)].pc = "condition"]
                      \o <<EvalOf(Top.condition)>>
            /\ ret' = NoReturn
            /\ UNCHANGED <<heap, frames>>
       ELSE LeaveIf(heap, 0)
    /\ UNCHANGED <<stack, frame, procedure, error_string, output, crashed,
                   session, nlines, buffer, reader>>

\* library_eval (main.c:1112-1120), up to its eval
LibraryEval ==
    /\ Called("library_eval")
    /\ LET e == check_stack_type(heap, stack, <<{CATIS_TYPE_LIST}>>)
       IN  IF e # NoError
           THEN /\ error_string' = e
                /\ Continue(ctl, 1)
                /\ UNCHANGED <<stack, frames>>
           ELSE /\ stack' = stack_drop(stack, 1)
                /\ frames' = Entered
                /\ ctl' = ctl \o
                     <<[Activation("lib_eval") EXCEPT
                          !.previous = frames[frame].procedure,
                          !.list = stack_peek(stack, 0)],
                       EvalOf(stack_peek(stack, 0))>>
                /\ ret' = NoReturn
                /\ UNCHANGED error_string
    /\ UNCHANGED <<heap, frame, procedure, output, crashed, session, nlines, buffer, reader>>

LibraryEvalReturn ==
    /\ ~crashed /\ ctl # <<>> /\ Top.k = "lib_eval" /\ ret # NoReturn
    /\ heap' = release(heap, Top.list)
    /\ frames' = [frames EXCEPT ![frame].procedure = Top.previous]
    /\ Continue(Pop(ctl), ret)
    /\ UNCHANGED <<stack, frame, procedure, error_string, output, crashed,
                   session, nlines, buffer, reader>>

\* library_up_eval (main.c:1122-1138), up to its eval
LibraryUpEval ==
    /\ Called("library_up_eval")
    /\ LET e == check_stack_type(heap, stack, <<{CATIS_TYPE_LIST}>>)
           up == frames[frame].previous
       IN  IF e # NoError
           THEN /\ error_string' = e
                /\ Continue(ctl, 1)
                /\ UNCHANGED <<stack, frames, frame>>
           ELSE /\ stack' = stack_drop(stack, 1)
                /\ frames' = Entered
                /\ frame' = IF up # NULL THEN up ELSE frame
                /\ ctl' = ctl \o
                     <<[Activation("up_eval") EXCEPT
                          !.previous = frames[frame].procedure,
                          !.list = stack_peek(stack, 0),
                          !.saved = IF up # NULL THEN frame ELSE NULL],
                       EvalOf(stack_peek(stack, 0))>>
                /\ ret' = NoReturn
                /\ UNCHANGED error_string
    /\ UNCHANGED <<heap, procedure, output, crashed, session, nlines, buffer, reader>>

\* up-eval that leaves the caller's frame current when its eval failed
LibraryUpEvalReturn_kept ==
    /\ ~crashed /\ ctl # <<>> /\ Top.k = "up_eval" /\ ret # NoReturn
    /\ frame' = IF Top.saved # NULL /\ ret = 0 THEN Top.saved ELSE frame
    /\ heap' = release(heap, Top.list)
    /\ frames' = [frames EXCEPT ![frame'].procedure = Top.previous]
    /\ Continue(Pop(ctl), ret)
    /\ UNCHANGED <<stack, procedure, error_string, output, crashed, session,
                   nlines, buffer, reader>>
LibraryUpEvalReturn ==
    /\ ~crashed /\ ctl # <<>> /\ Top.k = "up_eval" /\ ret # NoReturn
    /\ frame' = IF Top.saved # NULL THEN Top.saved ELSE frame
    /\ heap' = release(heap, Top.list)
    /\ frames' = [frames EXCEPT ![frame'].procedure = Top.previous]
    /\ Continue(Pop(ctl), ret)
    /\ UNCHANGED <<stack, procedure, error_string, output, crashed, session,
                   nlines, buffer, reader>>

(* -- use of freed memory ------------------------------------------------ *)
\* The program still holds a pointer to a freed object: a list some eval is
\* in the middle of, a stack entry, a local of a live frame, a procedure
\* body.  Reading through it is undefined: the steps above go on with the
\* bytes the object held when it was freed, and the process may as well be
\* killed at any moment.
Dangling ==
    \/ \E k \in 1..Len(ctl) : ctl[k].list # NULL /\ heap[ctl[k].list].freed
    \/ \E k \in 1..Len(stack) : heap[stack[k]].freed
    \/ \E f \in 1..Len(frames) :
         ~frames[f].freed /\ \E x \in DOMAIN frames[f].locals :
                                 heap[frames[f].locals[x]].freed
    \/ \E k \in 1..Len(procedure) :
         procedure[k].procedure # NULL /\ heap[procedure[k].procedure].freed

Crash ==
    /\ ~crashed /\ ctl # <<>> /\ Dangling
    /\ crashed' = TRUE
    /\ UNCHANGED <<heap, stack, frames, frame, procedure, ctl, ret,
                   error_string, output, session, nlines, buffer, reader>>

(* -- the reader on its own (main.c:1465-1473) --------------------------- *)
\* eval_file parses each argument as a source text of its own and pushes
\* the object.  The argument lies in memory with its terminating NUL and
\* whatever follows it; the string branch of parse_object steps over the
\* byte after a backslash without looking at it, so a backslash before the
\* NUL takes the cursor past the end.  What is read there is not defined:
\* no byte (the read faults), more NULs, or a byte that closes the String.
Unmapped == "unmapped"
Beyond == {<<>>, <<"\"">>, <<Unmapped>>}
ReadSource ==
    /\ parsed = NotParsed
    /\ \E beyond \in Beyond :
         LET memory == source \o <<NUL>> \o beyond
             r == parse_object(heap, memory, 1)
             past == r.next > Len(source) + 1
         IN  IF past /\ beyond = <<Unmapped>>
             THEN /\ crashed' = TRUE
                  /\ parsed' = [object |-> NULL, next |-> r.next, error |-> Fault]
                  /\ UNCHANGED <<heap, stack>>
             ELSE /\ heap' = r.heap
                  /\ parsed' = [object |-> r.object, next |-> r.next,
                                error |-> r.error]
                  /\ stack' = IF r.object # NULL THEN stack_push(stack, r.object)
                              ELSE stack
                  /\ UNCHANGED crashed
    /\ UNCHANGED <<frames, frame, procedure, ctl, ret, error_string, output,
                   session, nlines, buffer, source>>

\* a step of eval or of a built-in
Evaluate ==
    \/ EvalReturn
    \/ EvalQuotedTuple
    \/ EvalCapture
    \/ EvalQuotedSymbol
    \/ EvalLocal
    \/ EvalUnbound
    \/ EvalCall
    \/ CallReturn
    \/ EvalLiteral
    \/ LibraryMath
    \/ LibraryCompare
    \/ LibrarySort
    \/ LibraryDefine
    \/ LibraryPrint
    \/ LibraryPrintln
    \/ LibraryLength
    \/ LibraryListAppend
    \/ LibraryAt
    \/ LibraryConcatenate
    \/ LibraryToTuple
    \/ LibraryShowStack
    \/ LibraryIf
    \/ LibraryIfCondition
    \/ LibraryIfBranch
    \/ LibraryEval
    \/ LibraryEvalReturn
    \/ LibraryUpEval
    \/ LibraryUpEvalReturn

Next ==
    \/ ReadLine
    \/ ReplReturn
    \/ Evaluate
    \/ Crash

Spec == Init /\ [][Next]_vars

\* the process is never stopped from outside: as long as a while is running
\* and eval has a step to take, it takes it in the end
Looping == \E k \in 1..Len(ctl) : ctl[k].k = "if" /\ ctl[k].is_while
LiveSpec == Spec /\ WF_vars(Looping /\ Evaluate)

(* -- the specification of the reader ------------------------------------ *)
\* every text of at most MaxSource bytes over SourceBytes
MaxSource == 3
SourceBytes == {"#", "t", "f", "x", "0", " ", "'"}
RECURSIVE Texts(_)
Texts(n) ==
    IF n = 0 THEN {<<>>}
    ELSE Texts(n - 1) \cup
         {Append(t, b) : t \in {x \in Texts(n - 1) : Len(x) = n - 1},
                         b \in SourceBytes}

InitRead ==
    /\ heap = load_library.heap
    /\ procedure = load_library.procedure
    /\ stack = <<>>
    /\ frames = <<new_stackframe(NULL)>>
    /\ frame = 1
    /\ ctl = <<>>
    /\ ret = NoReturn
    /\ error_string = NoError
    /\ output = <<>>
    /\ crashed = FALSE
    /\ session = 1
    /\ nlines = 0
    /\ buffer = <<>>
    /\ source \in Texts(MaxSource)
    /\ parsed = NotParsed

NextRead == ReadSource

SpecRead == InitRead /\ [][NextRead]_vars

(* -- reading back what print_object writes ------------------------------ *)
\* the value parse_object returned is written by print_object with
\* PRINT_REPR (as stack_show writes it, main.c:744-761) and that text is
\* given to parse_object
ReadPrinted ==
    /\ Len(stack) = 1 /\ parsed.object = stack[1]
    /\ LET text == print_object(heap, stack[1], TRUE)
           r == parse_object(heap, text, 1)
       IN  /\ output' = text
           /\ heap' = r.heap
           /\ parsed' = [object |-> r.object, next |-> r.next, error |-> r.error]
           /\ stack' = IF r.object # NULL THEN stack_push(stack, r.object)
                       ELSE stack
    /\ UNCHANGED <<frames, frame, procedure, ctl, ret, error_string, crashed,
                   session, nlines, buffer, source>>

MaxRepr == 4
ReprBytes == {"\"", "\\", "a", "1", "-", " ", "[", "]", "(", ")"}
RECURSIVE TextsOver(_, _)
TextsOver(bytes, n) ==
    IF n = 0 THEN {<<>>}
    ELSE TextsOver(bytes, n - 1) \cup
         {Append(t, b) : t \in {x \in TextsOver(bytes, n - 1) : Len(x) = n - 1},
                         b \in bytes}

InitRepr ==
    /\ heap = load_library.heap
    /\ procedure = load_library.procedure
    /\ stack = <<>>
    /\ frames = <<new_stackframe(NULL)>>
    /\ frame = 1
    /\ ctl = <<>>
    /\ ret = NoReturn
    /\ error_string = NoError
    /\ output = <<>>
    /\ crashed = FALSE
    /\ session = 1
    /\ nlines = 0
    /\ buffer = <<>>
    /\ source \in TextsOver(ReprBytes, MaxRepr)
    /\ parsed = NotParsed

NextRepr == ReadSource \/ ReadPrinted

SpecRepr == InitRepr /\ [][NextRepr]_vars

(* ======================================================================= *)
(* The properties                                                          *)
(* ======================================================================= *)
Range(f) == {f[x] : x \in DOMAIN f}
Wrapped(line) == <<"[">> \o line \o <<"]">>
IsList(h, o) == o # NULL /\ h[o].type = CATIS_TYPE_LIST
\* eval has just returned to repl from the first line of the session
FirstLineDone(line) ==
    /\ buffer = Wrapped(line) /\ nlines = 1
    /\ ctl # <<>> /\ Top.k = "repl" /\ ret # NoReturn
\* what a C caller sees as a non-zero return value
Failed(r) == r # NoReturn /\ r # 0

(* -- C1 ----------------------------------------------------------------- *)
\* C1: whenever if-else is invoked with three Lists on top of the stack, it
\* pops all three: the top one is its else arm, the one below its then arm
\* and the third its condition.
C1_IfElsePopsThree ==
    \A k \in 1..Len(ctl) :
       LET a == ctl[k]
           n == Len(a.entry)
       IN  (/\ a.k = "if"
            /\ a.name = <<"i", "f", "-", "e", "l", "s", "e">>
            /\ n >= 3
            /\ \A j \in (n - 2)..n : IsList(heap, a.entry[j]))
           => /\ a.else_branch = a.entry[n]
              /\ a.if_branch = a.entry[n - 1]
              /\ a.condition = a.entry[n - 2]

(* -- C2 ----------------------------------------------------------------- *)
\* C2: the body of every procedure call in progress is alive: the List that
\* eval(context, procedure->procedure) is evaluating has not been freed and
\* has a reference count of at least 1, whatever has been defined since the
\* call began.
RunningBodies ==
    {ctl[k + 1].list : k \in {j \in 1..(Len(ctl) - 1) : ctl[j].k = "call"}}
C2_RunningBodyAlive ==
    \A body \in RunningBodies :
       ~heap[body].freed /\ heap[body].reference_count >= 1

(* -- C3 ----------------------------------------------------------------- *)
\* the objects the program holds a pointer to through the stack s, a local
\* of a live frame, an element of a container or a procedure body
Held(h, s, fs, procs) ==
    (Range(s)
     \cup UNION {Range(fs[f].locals) : f \in {g \in 1..Len(fs) : ~fs[g].freed}}
     \cup UNION {Range(h[o].element) : o \in {x \in 1..Len(h) : ~h[x].freed}}
     \cup {procs[k].procedure : k \in 1..Len(procs)}) \ {NULL}
\* the lists under evaluation with their literals, and the quotations a
\* running if / while holds
InProgress ==
    ({ctl[k].list : k \in 1..Len(ctl)}
     \cup UNION {Range(heap[ctl[k].list].element) :
                   k \in {j \in 1..Len(ctl) : ctl[j].list # NULL}}
     \cup {ctl[k].condition : k \in 1..Len(ctl)}
     \cup {ctl[k].if_branch : k \in 1..Len(ctl)}
     \cup {ctl[k].else_branch : k \in 1..Len(ctl)}) \ {NULL}
\* the number of operands the mutating built-in about to run takes, 0 when
\* the next step is not one
Operands ==
    IF Called("library_sort") \/ Called("library_to_tuple") THEN 1
    ELSE IF Called("library_list_append") \/ Called("library_concatenate")
    THEN 2 ELSE 0
SameValue(a, b) ==
    /\ a.type = b.type /\ a.element = b.element /\ a.pointer = b.pointer
    /\ a.integer = b.integer /\ a.boolean = b.boolean
\* C3: a step of sort, <-, ^ or to-tuple changes no value that is held by
\* anything but the stack entries it operates on: the variant, the elements
\* and the bytes of every such value are the same after the step.
C3_OtherHoldersUnchanged ==
    [][Operands > 0 =>
         \A o \in Held(heap, stack_drop(stack, Operands), frames, procedure)
                    \cup InProgress :
            SameValue(heap[o], heap'[o])]_vars

(* -- C4 ----------------------------------------------------------------- *)
\* C4: every value held by a stack entry, by a local of a live frame, by an
\* element of a live container or as a procedure body has not been freed
\* and has a reference count of at least 1.
C4_HeldValuesAlive ==
    \A o \in Held(heap, stack, frames, procedure) :
       ~heap[o].freed /\ heap[o].reference_count >= 1

(* -- C5 ----------------------------------------------------------------- *)
\* the source text is the one token `# c`
Token(c) ==
    /\ Len(source) >= 2 /\ source[1] = "#" /\ source[2] = c
    /\ At(source, 3) \in {NUL, " "}
IsBool(value) ==
    /\ parsed.object # NULL
    /\ heap[parsed.object].type = CATIS_TYPE_BOOL
    /\ heap[parsed.object].boolean = value
\* C5: once the reader has read a text that begins with #, what it returned
\* is the Bool true for the token #t, the Bool false for the token #f, and
\* no Bool when another byte follows the #.
C5_ReadsBooleans ==
    (parsed # NotParsed /\ At(source, 1) = "#") =>
       /\ Token("t") => IsBool(1)
       /\ Token("f") => IsBool(0)
       /\ At(source, 2) \notin {"t", "f"} =>
             (parsed.object = NULL
              \/ heap[parsed.object].type # CATIS_TYPE_BOOL)

(* -- C6 ----------------------------------------------------------------- *)
\* the List o holds the Ints ns, in this order
IsIntList(h, o, ns) ==
    /\ IsList(h, o)
    /\ Len(h[o].element) = Len(ns)
    /\ \A k \in 1..Len(ns) :
          /\ h[h[o].element[k]].type = CATIS_TYPE_INT
          /\ h[h[o].element[k]].integer = ns[k]
TopIsIntList(ns) == stack # <<>> /\ IsIntList(heap, stack[Len(stack)], ns)

\* C6 as the specification states it: in a fresh interpreter the program
\* [1 2 3] [$x dup *] map succeeds and leaves [1 4 9] on top of the stack.
C6_AsStated ==
    FirstLineDone(Program_map_local) => ret = 0 /\ TopIsIntList(<<1, 4, 9>>)

\* C6: in a fresh interpreter the program [1 2 3] [$x dup *] map fails with
\* the message "Unbound local variable"; the programs
\* [1 2 3] [(x) $x dup *] map and [1 2 3] [dup *] map succeed and leave
\* [1 4 9] on top of the stack.
C6_MapSquares ==
    /\ FirstLineDone(Program_map_local) =>
          Failed(ret) /\ error_string = "Unbound local variable"
    /\ FirstLineDone(Program_map_capture) =>
          ret = 0 /\ TopIsIntList(<<1, 4, 9>>)
    /\ FirstLineDone(Program_map) =>
          ret = 0 /\ TopIsIntList(<<1, 4, 9>>)
C6_MapLocalFailed == FirstLineDone(Program_map_local) /\ Failed(ret)

(* -- C7 ----------------------------------------------------------------- *)
WhileRunning == \E k \in 1..Len(ctl) : ctl[k].k = "if" /\ ctl[k].is_while
\* library_if is about to run as while, with two Lists to pop
WhileCalled ==
    /\ Called("library_if")
    /\ procedure[Callee].name = <<"w", "h", "i", "l", "e">>
    /\ Len(stack) >= 2
    /\ IsList(heap, stack[Len(stack)]) /\ IsList(heap, stack[Len(stack) - 1])
\* cond has returned 0 to a while and left a Bool on top
WhileTakes(value) ==
    /\ ~crashed /\ ctl # <<>> /\ Top.k = "if" /\ Top.is_while
    /\ Top.pc = "condition" /\ ret = 0
    /\ stack # <<>> /\ heap[stack[Len(stack)]].type = CATIS_TYPE_BOOL
    /\ (heap[stack[Len(stack)]].boolean # 0) = value
\* body has returned 0 to a while
WhileBodyDone ==
    /\ ~crashed /\ ctl # <<>> /\ Top.k = "if" /\ Top.is_while
    /\ Top.pc = "if_branch" /\ ret = 0
WhileSteps ==
    /\ (WhileCalled /\ ~crashed') =>
          /\ stack' = stack_drop(stack, 2)
          /\ Len(ctl') = Len(ctl) + 2
          /\ ctl'[Len(ctl) + 1].condition = stack[Len(stack) - 1]
          /\ ctl'[Len(ctl) + 1].if_branch = stack[Len(stack)]
          /\ ctl'[Len(ctl) + 2] = EvalOf(stack[Len(stack) - 1])
    /\ (WhileTakes(TRUE) /\ ~crashed') =>
          /\ stack' = stack_drop(stack, 1)
          /\ ctl' = [ctl EXCEPT ![Len(ctl)].pc = "if_branch"]
                    \o <<EvalOf(Top.if_branch)>>
    /\ (WhileTakes(FALSE) /\ ~crashed') =>
          /\ stack' = stack_drop(stack, 1)
          /\ ctl' = Advance(Pop(ctl)) /\ ret' = NoReturn
    /\ (WhileBodyDone /\ ~crashed') =>
          /\ stack' = stack
          /\ ctl' = [ctl EXCEPT ![Len(ctl)].pc = "condition"]
                    \o <<EvalOf(Top.condition)>>
WhileProgram ==
    FirstLineDone(Program_while) =>
       /\ ret = 0
       /\ output = <<"0", "\n", "1", "\n", "2", "\n">>
       /\ Len(stack) = 1 /\ TopIsIntList(<<1, 2, 3>>)
\* C7: while pops cond and body and evaluates cond; each time cond leaves
\* #t it consumes the Bool and evaluates body, and after body it evaluates
\* cond again; the first time cond leaves #f it consumes the Bool and
\* returns 0; every while that is running comes to an end; and the program
\* [1 2 3] 0 (i) [$i 3 <] [$i print $i 1 + (i)] while prints 0, 1, 2 on a
\* line each and ends with the stack [1 2 3].
C7_While ==
    /\ [][WhileSteps]_vars
    /\ []WhileProgram
    /\ (WhileRunning ~> ~WhileRunning)
C7_WhilePrinted ==
    /\ FirstLineDone(Program_while)
    /\ output = <<"0", "\n", "1", "\n", "2", "\n">>

(* -- C8, C9 ------------------------------------------------------------- *)
\* eval is at an unquoted Tuple of symbols, with enough on the stack
Capturing ==
    /\ AtElement
    /\ heap[Element].type = CATIS_TYPE_TUPLE /\ heap[Element].quoted = 0
    /\ Len(stack) >= Len(heap[Element].element)
    /\ \A k \in 1..Len(heap[Element].element) :
          HasBytes(heap, heap[Element].element[k])
K == Len(heap[Element].element)
\* the slot the k-th symbol names, and the stack entry that faces it
Slot(k) == At(heap[heap[Element].element[k]].pointer, 1)
Value(k) == stack[Len(stack) - K + k]
Slots == {Slot(k) : k \in 1..K}
Modified ==
    {x \in DOMAIN frames[frame].locals \cup DOMAIN frames'[frame].locals :
        Local(frames'[frame], x) # Local(frames[frame], x)}

\* C8 as the specification states it: a capture of K symbols leaves the
\* stack K shorter and modifies exactly K slots of the current frame.
C8_AsStated ==
    [][(Capturing /\ ~crashed') =>
          /\ Len(stack') = Len(stack) - K
          /\ Cardinality(Modified) = K]_vars

\* C8: a capture of K symbols leaves the stack K shorter and changes only
\* slots that the tuple names, in the current frame only; each named slot
\* ends holding one of the values captured for it, so that the number of
\* slots modified is the number of distinct symbols, which is at most K.
C8_Capture ==
    [][(Capturing /\ ~crashed') =>
          /\ stack' = stack_drop(stack, K)
          /\ Modified \subseteq Slots
          /\ \A x \in Slots :
                Local(frames'[frame], x) \in
                   {Value(k) : k \in {j \in 1..K : Slot(j) = x}}
          /\ Cardinality(Slots) <= K
          /\ frame' = frame /\ Len(frames') = Len(frames)
          /\ \A f \in 1..Len(frames) : f # frame => frames'[f] = frames[f]]_vars
\* the capture (a b a) of 1 2 3 has been done
C8_CapturedTwice ==
    /\ buffer = Wrapped(Program_capture_twice) /\ nlines = 1
    /\ ctl # <<>> /\ Top.k = "eval" /\ Top.i = 5 /\ stack = <<>>
    /\ DOMAIN frames[frame].locals = {"a", "b"}
    /\ heap[frames[frame].locals["a"]].integer = 3
    /\ heap[frames[frame].locals["b"]].integer = 2

\* eval is at $x with the slot x bound
Reading ==
    /\ AtElement
    /\ heap[Element].type = CATIS_TYPE_SYMBOL /\ heap[Element].quoted = 0
    /\ At(heap[Element].pointer, 1) = "$"
    /\ Local(frames[frame], At(heap[Element].pointer, 2)) # NULL
Read == Local(frames[frame], At(heap[Element].pointer, 2))
LocalSteps ==
    /\ (Capturing /\ ~crashed') =>
          \A k \in 1..K :
             (\A j \in (k + 1)..K : Slot(j) # Slot(k)) =>
                Local(frames'[frame], Slot(k)) = Value(k)
    /\ (Reading /\ ~crashed') =>
          /\ stack' = Append(stack, Read)
          /\ heap'[Read].reference_count = heap[Read].reference_count + 1
          /\ frames' = frames
    /\ \A f \in 1..Len(frames) :
          frames'[f].locals # frames[f].locals =>
             /\ AtElement /\ f = frame
             /\ heap[Element].type = CATIS_TYPE_TUPLE
             /\ heap[Element].quoted = 0
\* C9: a capture binds the slots left to right, slot si to the value vi that
\* faces it (the last one, for a symbol named twice); a $si evaluated while
\* si is bound pushes that same handle, raises its reference count by one
\* and changes no frame; the locals of a frame change only when a capture is
\* evaluated in it; and 5 (x) $x $x + leaves 10 on top.
C9_Locals ==
    /\ [][LocalSteps]_vars
    /\ [](FirstLineDone(Program_capture) =>
            /\ ret = 0
            /\ stack # <<>>
            /\ heap[stack[Len(stack)]].type = CATIS_TYPE_INT
            /\ heap[stack[Len(stack)]].integer = 10)
C9_Ten ==
    /\ FirstLineDone(Program_capture) /\ ret = 0
    /\ heap[stack[Len(stack)]].integer = 10

(* -- C10 ---------------------------------------------------------------- *)
\* sort is about to run on a List with two elements that do not compare
SortingMismatch ==
    /\ Called("library_sort")
    /\ stack # <<>> /\ IsList(heap, stack[Len(stack)])
    /\ LET es == heap[stack[Len(stack)]].element
       IN  \E i, j \in 1..Len(es) :
              compare(heap, es[i], es[j]) = COMPARE_TYPE_MISMATCH
\* C10: sort on a List with two elements whose compare is the type mismatch
\* sentinel returns non-zero and sets the error.
C10_SortMismatchFails ==
    [][(SortingMismatch /\ ~crashed') =>
          Failed(ret') /\ error_string' # NoError]_vars

(* -- C11 ---------------------------------------------------------------- *)
\* structural equality of the value a of heap h and the value b of heap g:
\* the same variant, payload, quoted flag and children at every depth
RECURSIVE StructurallyEqual(_, _, _, _)
StructurallyEqual(h, a, g, b) ==
    /\ h[a].type = g[b].type
    /\ h[a].integer = g[b].integer
    /\ h[a].boolean = g[b].boolean
    /\ h[a].pointer = g[b].pointer
    /\ h[a].quoted = g[b].quoted
    /\ Len(h[a].element) = Len(g[b].element)
    /\ \A k \in 1..Len(h[a].element) :
          StructurallyEqual(h, h[a].element[k], g, g[b].element[k])
\* sort is about to run on a List whose elements pairwise compare
Sorting ==
    /\ Called("library_sort") /\ stack # <<>>
    /\ IsList(heap, stack[Len(stack)])
    /\ LET es == heap[stack[Len(stack)]].element
       IN  \A i, j \in 1..Len(es) :
              compare(heap, es[i], es[j]) # COMPARE_TYPE_MISMATCH
\* the List l of heap h holds the elements es of heap g in some order
PermutationOf(h, l, g, es) ==
    /\ Len(h[l].element) = Len(es)
    /\ \E q \in Orders(Len(es)) :
          \A k \in 1..Len(es) : StructurallyEqual(h, h[l].element[k], g, es[q[k]])
NonDecreasing(h, l) ==
    \A i, j \in 1..Len(h[l].element) :
       i < j => compare(h, h[l].element[i], h[l].element[j]) <= 0
\* C11: a step of sort on a List whose elements pairwise compare without
\* mismatch leaves the stack as deep as it was, the entries below the top
\* untouched, and on top a List that is a permutation of the same elements
\* in non-decreasing order under compare.
C11_SortSorts ==
    [][Sorting =>
         /\ Len(stack') = Len(stack)
         /\ stack_drop(stack', 1) = stack_drop(stack, 1)
         /\ IsList(heap', stack'[Len(stack')])
         /\ PermutationOf(heap', stack'[Len(stack')],
                          heap, heap[stack[Len(stack)]].element)
         /\ NonDecreasing(heap', stack'[Len(stack')])]_vars
\* the same for Lists that hold no List and no Tuple
C11_SortsScalars ==
    [][(Sorting /\ \A e \in Range(heap[stack[Len(stack)]].element) :
                      ~IsContainer(heap[e].type)) =>
         /\ Len(stack') = Len(stack)
         /\ stack_drop(stack', 1) = stack_drop(stack, 1)
         /\ IsList(heap', stack'[Len(stack')])
         /\ PermutationOf(heap', stack'[Len(stack')],
                          heap, heap[stack[Len(stack)]].element)
         /\ NonDecreasing(heap', stack'[Len(stack')])]_vars

(* -- C12 ---------------------------------------------------------------- *)
\* the order the specification gives two values: -1, 0 or 1
RECURSIVE Lexicographic(_, _)
Lexicographic(a, b) ==
    IF a = <<>> \/ b = <<>>
    THEN (IF a = b THEN 0 ELSE IF a = <<>> THEN -1 ELSE 1)
    ELSE IF Head(a) # Head(b)
    THEN (IF ByteOrder(Head(a)) < ByteOrder(Head(b)) THEN -1 ELSE 1)
    ELSE Lexicographic(Tail(a), Tail(b))
Sign(n) == IF n < 0 THEN -1 ELSE IF n > 0 THEN 1 ELSE 0
Ordering(h, a, b) ==
    CASE h[a].type = CATIS_TYPE_INT -> Sign(h[a].integer - h[b].integer)
      [] h[a].type = CATIS_TYPE_BOOL -> Sign(h[a].boolean - h[b].boolean)
      [] h[a].type \in {CATIS_TYPE_STRING, CATIS_TYPE_SYMBOL} ->
           Lexicographic(h[a].pointer, h[b].pointer)
      [] OTHER -> Sign(Len(h[a].element) - Len(h[b].element))
Relation(name, c) ==
    CASE name = <<"=", "=">> -> c = 0
      [] name = <<"!", "=">> -> c # 0
      [] name = <<"<">> -> c < 0
      [] name = <<"<", "=">> -> c <= 0
      [] name = <<">">> -> c > 0
      [] name = <<">", "=">> -> c >= 0
      [] OTHER -> FALSE
\* a comparison is about to run on two values whose compare is defined
Comparing ==
    /\ Called("library_compare") /\ Len(stack) >= 2
    /\ compare(heap, stack[Len(stack) - 1], stack[Len(stack)])
         # COMPARE_TYPE_MISMATCH
IsBoolean(h, o, value) ==
    o # NULL /\ h[o].type = CATIS_TYPE_BOOL /\ (h[o].boolean # 0) = value
\* the line has been read as the first one and its turn is over, leaving
\* the one Bool value on the stack
LeavesBoolean(line, value) ==
    (nlines = 1 /\ buffer = Wrapped(line) /\ ctl = <<>>) =>
       /\ Len(stack) = 1
       /\ IsBoolean(heap, stack[1], value)
\* C12: each of the six words == != < <= > >= typed after two Ints
\* pops both and leaves exactly one Bool, the named relation of the two:
\* 2 == 2, 1 != 2, 1 < 2, 2 <= 2 and 2 > 1 are true, 1 >= 2 is false.
C12_SixRelations ==
    /\ LeavesBoolean(Lines.cmp_eq, TRUE)
    /\ LeavesBoolean(Lines.cmp_ne, TRUE)
    /\ LeavesBoolean(Lines.cmp_lt, TRUE)
    /\ LeavesBoolean(Lines.cmp_le, TRUE)
    /\ LeavesBoolean(Lines.cmp_gt, TRUE)
    /\ LeavesBoolean(Lines.cmp_ge, FALSE)
\* every comparison that does run pops both operands and pushes one new
\* Bool, the relation its word names applied to the order of the two
\* values: natural for Int and Bool, byte-lexicographic for String and
\* Symbol, by length only for List and Tuple
C12_RelationOfOrder ==
    [][Comparing =>
         /\ Len(stack') = Len(stack) - 1
         /\ stack_drop(stack', 1) = stack_drop(stack, 2)
         /\ stack'[Len(stack')] > Len(heap)
         /\ IsBoolean(heap', stack'[Len(stack')],
                      Relation(procedure[Callee].name,
                               Ordering(heap, stack[Len(stack) - 1],
                                        stack[Len(stack)])))]_vars
\* the five words that can be read, on Ints
C12_FiveRelations ==
    /\ LeavesBoolean(Lines.cmp_eq, TRUE)
    /\ LeavesBoolean(Lines.cmp_lt, TRUE)
    /\ LeavesBoolean(Lines.cmp_le, TRUE)
    /\ LeavesBoolean(Lines.cmp_gt, TRUE)
    /\ LeavesBoolean(Lines.cmp_ge, FALSE)

(* -- C13 ---------------------------------------------------------------- *)
\* @ is about to run on a List, Tuple or String and an Int
Indexing ==
    /\ Called("library_at") /\ Len(stack) >= 2
    /\ heap[stack[Len(stack) - 1]].type
         \in {CATIS_TYPE_LIST, CATIS_TYPE_TUPLE, CATIS_TYPE_STRING}
    /\ heap[stack[Len(stack)]].type = CATIS_TYPE_INT
\* the position, from 0, that the index i selects in a value of length n;
\* n when it selects none
Selected(n, i) ==
    IF 0 <= i /\ i < n THEN i
    ELSE IF 0 - n <= i /\ i < 0 THEN n + i
    ELSE n
\* C13: a step of @ on a List, Tuple or String x of length n and an Int i
\* leaves the stack one entry shorter, the entries below untouched, with
\* on top element i of x when 0 <= i < n, element n+i when -n <= i < 0
\* (a one-byte String when x is a String) and the Bool false otherwise.
C13_At ==
    [][Indexing =>
         LET x == stack[Len(stack) - 1]
             i == heap[stack[Len(stack)]].integer
             text == heap[x].type = CATIS_TYPE_STRING
             n == IF text THEN Len(heap[x].pointer) ELSE Len(heap[x].element)
             k == Selected(n, i)
             top == stack'[Len(stack')]
         IN  /\ Len(stack') = Len(stack) - 1
             /\ stack_drop(stack', 1) = stack_drop(stack, 2)
             /\ ~heap'[top].freed
             /\ IF k = n THEN IsBoolean(heap', top, FALSE)
                ELSE IF text
                THEN /\ heap'[top].type = CATIS_TYPE_STRING
                     /\ heap'[top].pointer = <<heap[x].pointer[k + 1]>>
                ELSE top = heap[x].element[k + 1]]_vars
IsInteger(h, o, n) == o # NULL /\ h[o].type = CATIS_TYPE_INT /\ h[o].integer = n
IsString(h, o, bytes) ==
    o # NULL /\ h[o].type = CATIS_TYPE_STRING /\ h[o].pointer = bytes
\* the three examples of the specification have left 3, 4 and #f
C13_ThreeFourFalse ==
    /\ nlines = 1 /\ buffer = Wrapped(Lines.at_list) /\ ctl = <<>>
    /\ Len(stack) = 3
    /\ IsInteger(heap, stack[1], 3)
    /\ IsInteger(heap, stack[2], 4)
    /\ IsBoolean(heap, stack[3], FALSE)

(* -- C14 ---------------------------------------------------------------- *)
Joinable ==
    {CATIS_TYPE_LIST, CATIS_TYPE_TUPLE, CATIS_TYPE_STRING, CATIS_TYPE_SYMBOL}
\* ^ is about to run on two operands of these variants
Joining(ta, tb) ==
    /\ Called("library_concatenate") /\ Len(stack) >= 2
    /\ heap[stack[Len(stack) - 1]].type = ta
    /\ heap[stack[Len(stack)]].type = tb
\* the value o of heap h is the value a followed by the value b of heap g
Joined(h, o, g, a, b) ==
    LET na == Len(g[a].element)
        nb == Len(g[b].element)
    IN  /\ o # NULL /\ ~h[o].freed
        /\ h[o].type = g[a].type
        /\ h[o].pointer = g[a].pointer \o g[b].pointer
        /\ Len(h[o].element) = na + nb
        /\ \A k \in 1..na :
              StructurallyEqual(h, h[o].element[k], g, g[a].element[k])
        /\ \A k \in 1..nb :
              StructurallyEqual(h, h[o].element[na + k], g, g[b].element[k])
JoinsSame ==
    \A t \in Joinable :
       Joining(t, t) =>
          /\ Len(stack') = Len(stack) - 1
          /\ stack_drop(stack', 1) = stack_drop(stack, 2)
          /\ Joined(heap', stack'[Len(stack')],
                    heap, stack[Len(stack) - 1], stack[Len(stack)])
JoinsDifferent ==
    \A ta, tb \in Joinable :
       (ta # tb /\ Joining(ta, tb)) =>
          /\ Failed(ret')
          /\ error_string' = "concatenate expects two objects of the same type"
          /\ stack' = stack
\* C14: a step of ^ on two operands of the same variant among List, Tuple,
\* String, Symbol replaces them with one value equal to the first followed
\* by the second (elements for List and Tuple, bytes for String and
\* Symbol); on two operands of different variants it fails with
\* "concatenate expects two objects of the same type" and leaves both
\* operands on the stack.
C14_Concatenate == [][JoinsSame /\ JoinsDifferent]_vars
\* the same for operands that hold no List and no Tuple
C14_Flat ==
    [][/\ JoinsDifferent
       /\ (/\ Len(stack) >= 2
           /\ \A e \in Range(heap[stack[Len(stack) - 1]].element) :
                 ~IsContainer(heap[e].type)) => JoinsSame]_vars

(* -- C15 ---------------------------------------------------------------- *)
\* up-eval is about to run on a List inside a user procedure
UpEvalCalled ==
    /\ Called("library_up_eval") /\ stack # <<>>
    /\ IsList(heap, stack[Len(stack)])
    /\ frames[frame].previous # NULL
\* eval is at an element of the quotation such an up-eval was given
InQuotation ==
    /\ AtElement /\ Len(ctl) >= 2
    /\ ctl[Len(ctl) - 1].k = "up_eval" /\ ctl[Len(ctl) - 1].saved # NULL
\* the frame of the procedure that invoked that up-eval, and its caller's
Own == ctl[Len(ctl) - 1].saved
Caller == frames[Own].previous
\* that up-eval's eval has returned
UpEvalReturning ==
    /\ ~crashed /\ ctl # <<>> /\ Top.k = "up_eval" /\ Top.saved # NULL
    /\ ret # NoReturn
UpEvalSteps ==
    /\ UpEvalCalled =>
          /\ frame' = frames[frame].previous
          /\ ctl'[Len(ctl) + 1].saved = frame
          /\ ctl'[Len(ctl) + 2].list = stack[Len(stack)]
    /\ InQuotation =>
          /\ frame = Caller /\ Caller # Own
          /\ (Capturing /\ ~crashed') =>
                /\ frames'[Own] = frames[Own]
                /\ \A k \in 1..K :
                      (\A j \in (k + 1)..K : Slot(j) # Slot(k)) =>
                         Local(frames'[Caller], Slot(k)) = Value(k)
          /\ (/\ heap[Element].type = CATIS_TYPE_SYMBOL
              /\ heap[Element].quoted = 0
              /\ At(heap[Element].pointer, 1) = "$") =>
                LET x == At(heap[Element].pointer, 2)
                IN  IF Local(frames[Caller], x) = NULL THEN Failed(ret')
                    ELSE stack' = Append(stack, Local(frames[Caller], x))
    /\ UpEvalReturning =>
          /\ frame' = Top.saved
          /\ ~frames'[frame'].freed
          /\ ret # 0 => ret' = ret
\* C15: up-eval invoked on a List inside a user procedure makes the
\* caller's frame the current frame for the evaluation of the quotation: a
\* capture in the quotation binds the caller's slots and leaves the
\* procedure's frame as it was, a $x reads the caller's slot x; and when
\* the evaluation returns, with or without an error (which is passed on),
\* the current frame is again the frame of the procedure that invoked
\* up-eval.
C15_UpEval == [][UpEvalSteps]_vars
\* [7] (l) [1 2] [(i) $l] map $i has left [[7] [7]] and 2: the quotation
\* read the l and bound the i of the top level, not those of map
C15_CallerLocals ==
    /\ nlines = 1 /\ buffer = Wrapped(Lines.up_locals) /\ ctl = <<>>
    /\ frame = 1 /\ Len(stack) = 2
    /\ IsList(heap, stack[1]) /\ Len(heap[stack[1]].element) = 2
    /\ \A e \in Range(heap[stack[1]].element) : IsIntList(heap, e, <<7>>)
    /\ IsInteger(heap, stack[2], 2)

(* -- C16 ---------------------------------------------------------------- *)
\* the value o is an Int, a Bool, a String with none of the bytes excluded,
\* an unquoted Symbol, or a List or unquoted Tuple of such values
RECURSIVE Plain(_, _, _)
Plain(h, o, excluded) ==
    LET t == h[o].type
    IN  /\ t \in {CATIS_TYPE_INT, CATIS_TYPE_BOOL, CATIS_TYPE_STRING,
                  CATIS_TYPE_SYMBOL, CATIS_TYPE_LIST, CATIS_TYPE_TUPLE}
        /\ t \in {CATIS_TYPE_SYMBOL, CATIS_TYPE_TUPLE} => h[o].quoted = 0
        /\ t = CATIS_TYPE_STRING => Range(h[o].pointer) \cap excluded = {}
        /\ \A e \in Range(h[o].element) : Plain(h, e, excluded)
\* the text printed for the value read first has been read in its turn
ReadBack ==
    /\ parsed # NotParsed /\ stack # <<>> /\ parsed.object # stack[1]
ReadsBack(excluded) ==
    (ReadBack /\ Plain(heap, stack[1], excluded)) =>
       /\ parsed.object # NULL
       /\ StructurallyEqual(heap, stack[1], heap, parsed.object)
\* C16: for every value v the reader returns from within its text that is
\* an Int, a Bool, a
\* String (with a backslash or a double quote or not), an unquoted Symbol, a
\* List or an unquoted Tuple, reading the text print_object writes for v
\* with PRINT_REPR returns a value structurally equal to v.
C16_RoundTrip == ReadsBack({NUL})
\* the same for the values that hold no String with a backslash
C16_WithoutBackslash == ReadsBack({"\\", NUL})

(* -- C17 ---------------------------------------------------------------- *)
\* the value eval or a built-in is about to hand to deep_copy, NULL when
\* the next step copies none: a quoted Tuple or Symbol that eval is at, or
\* the shared List (or operand of ^) that get_unshared_object is given
ToCopy ==
    LET top == stack_peek(stack, 0)
        under == stack_peek(stack, 1)
        shared(o) == IF heap[o].reference_count > 1 THEN o ELSE NULL
    IN  IF ~AtElement THEN NULL
        ELSE IF /\ heap[Element].type \in {CATIS_TYPE_TUPLE, CATIS_TYPE_SYMBOL}
                /\ heap[Element].quoted # 0
        THEN Element
        ELSE IF /\ Called("library_sort") \/ Called("library_to_tuple")
                /\ check_stack_type(heap, stack, <<{CATIS_TYPE_LIST}>>) = NoError
        THEN shared(top)
        ELSE IF /\ Called("library_list_append")
                /\ check_stack_type(heap, stack,
                       <<{CATIS_TYPE_LIST}, CATIS_TYPE_ANY>>) = NoError
        THEN shared(under)
        ELSE IF /\ Called("library_concatenate") /\ Len(stack) >= 2
                /\ heap[top].type = heap[under].type
                /\ heap[top].type \in Joinable
        THEN shared(under)
        ELSE NULL
\* the value o of heap h with all that it holds
RECURSIVE Nodes(_, _)
Nodes(h, o) == {o} \cup UNION {Nodes(h, e) : e \in Range(h[o].element)}
\* structural equality but for the quoted flag of Lists and Tuples
RECURSIVE EqualButQuoted(_, _, _, _)
EqualButQuoted(h, a, g, b) ==
    /\ h[a].type = g[b].type
    /\ h[a].integer = g[b].integer
    /\ h[a].boolean = g[b].boolean
    /\ h[a].pointer = g[b].pointer
    /\ ~IsContainer(h[a].type) => h[a].quoted = g[b].quoted
    /\ Len(h[a].element) = Len(g[b].element)
    /\ \A k \in 1..Len(h[a].element) :
          EqualButQuoted(h, h[a].element[k], g, g[b].element[k])
\* C17: the copy deep_copy makes of a value is structurally equal to it,
\* with the same variant, payload, quoted flag and children at every depth,
\* quoted Tuples inside a List included, and no node of the copy is a node
\* of the value; this for every value the program hands to deep_copy and
\* whatever the memory of the new nodes held.
C17_DeepCopy ==
    ToCopy # NULL =>
       \A u \in Uninitialised :
          LET c == deep_copy(heap, ToCopy, u)
          IN  /\ StructurallyEqual(c.heap, c.object, heap, ToCopy)
              /\ Nodes(c.heap, c.object) \cap Nodes(heap, ToCopy) = {}
\* the same without the quoted flag of the Lists and Tuples
C17_ButQuoted ==
    ToCopy # NULL =>
       \A u \in Uninitialised :
          LET c == deep_copy(heap, ToCopy, u)
          IN  /\ EqualButQuoted(c.heap, c.object, heap, ToCopy)
              /\ Nodes(c.heap, c.object) \cap Nodes(heap, ToCopy) = {}
              /\ \A o \in Nodes(heap, ToCopy) : c.heap[o] = heap[o]

(* -- C18 ---------------------------------------------------------------- *)
\* the values reached from those of the set in at most n steps down
RECURSIVE Below(_, _, _)
Below(h, set, n) ==
    LET more == set \cup UNION {Range(h[o].element) : o \in set}
    IN  IF n = 0 \/ more = set THEN set ELSE Below(h, more, n - 1)
ContainsItself(h, o) == o \in Below(h, Range(h[o].element), Len(h))
\* C18: in every state, after any reads and calls of built-ins (<- and ^
\* applied to a List and itself included), no List or Tuple transitively
\* contains itself.
C18_NoCycle ==
    \A o \in 1..Len(heap) :
       (IsContainer(heap[o].type) /\ ~heap[o].freed) => ~ContainsItself(heap, o)
\* [1] dup ^ dup <- dup ^ has left one List of six elements, the third and
\* the sixth of them the List [1 1]
C18_SelfJoined ==
    /\ nlines = 1 /\ buffer = Wrapped(Lines.self_join) /\ ctl = <<>>
    /\ Len(stack) = 1 /\ IsList(heap, stack[1])
    /\ Len(heap[stack[1]].element) = 6
    /\ IsIntList(heap, heap[stack[1]].element[3], <<1, 1>>)
    /\ IsIntList(heap, heap[stack[1]].element[6], <<1, 1>>)

(* -- C19 ---------------------------------------------------------------- *)
\* define is about to bind a body to a name bound to a native built-in
Rebound == lookup_procedure(procedure, heap[stack[Len(stack)]].pointer)
DefiningOverNative ==
    /\ Called("library_define")
    /\ check_stack_type(heap, stack,
           <<{CATIS_TYPE_LIST}, {CATIS_TYPE_SYMBOL}>>) = NoError
    /\ Rebound # NULL
    /\ procedure[Rebound].c_procedure # NoFunction
\* eval is at a name that load_library bound to a native built-in and that
\* has a body now
CallingRebound ==
    /\ IsCall /\ Callee # NULL /\ Callee <= Len(Natives)
    /\ procedure[Callee].procedure # NULL
\* the next step enters the body bound to the name, and no built-in acts
RunsBody ==
    /\ Len(ctl') = Len(ctl) + 2
    /\ ctl'[Len(ctl')] = EvalOf(procedure[Callee].procedure)
    /\ stack' = stack /\ heap' = heap
\* C19 as the specification states it: after define has bound a body to a
\* name that was bound to a native built-in, evaluating the name runs the
\* new body, and the entry still holds its native function.
C19_AsStated ==
    [][/\ DefiningOverNative =>
             /\ procedure'[Rebound].procedure = stack[Len(stack) - 1]
             /\ procedure'[Rebound].c_procedure = procedure[Rebound].c_procedure
       /\ CallingRebound => RunsBody]_vars
\* C19: define on a name bound to a native built-in rebinds the entry the
\* name has (the table gets no new entry and no other entry changes): the
\* entry holds the body and no native function any more; evaluating the
\* name then runs the body, and the built-in does not act.
C19_Define ==
    [][/\ DefiningOverNative =>
             /\ Len(procedure') = Len(procedure)
             /\ procedure'[Rebound].name = procedure[Rebound].name
             /\ procedure'[Rebound].procedure = stack[Len(stack) - 1]
             /\ procedure'[Rebound].c_procedure = NoFunction
             /\ \A k \in 1..Len(procedure) :
                   k # Rebound => procedure'[k] = procedure[k]
       /\ CallingRebound =>
             /\ procedure[Callee].c_procedure = NoFunction
             /\ RunsBody]_vars
\* [7] '+ define 1 2 + has left 1 2 7: the body ran, not the addition
C19_BodyRan ==
    /\ nlines = 1 /\ buffer = Wrapped(Lines.define_native) /\ ctl = <<>>
    /\ procedure[1].name = <<"+">> /\ procedure[1].c_procedure = NoFunction
    /\ Len(stack) = 3
    /\ IsInteger(heap, stack[1], 1)
    /\ IsInteger(heap, stack[2], 2)
    /\ IsInteger(heap, stack[3], 7)

(* -- C20 ---------------------------------------------------------------- *)
\* the operands a built-in takes, deepest first, each with the variants it
\* accepts; if-else takes three Lists
Takes(entry) ==
    LET f == entry.c_procedure
        Integer == {CATIS_TYPE_INT}
        List == {CATIS_TYPE_LIST}
    IN  CASE f = "library_math" -> <<Integer, Integer>>
          [] f = "library_compare" -> <<CATIS_TYPE_ANY, CATIS_TYPE_ANY>>
          [] f \in {"library_sort", "library_eval", "library_up_eval",
                    "library_to_tuple"} -> <<List>>
          [] f = "library_define" -> <<List, {CATIS_TYPE_SYMBOL}>>
          [] f = "library_if" ->
               IF entry.name = <<"i", "f", "-", "e", "l", "s", "e">>
               THEN <<List, List, List>> ELSE <<List, List>>
          [] f \in {"library_print", "library_println"} -> <<CATIS_TYPE_ANY>>
          [] f = "library_length" -> <<Joinable>>
          [] f = "library_list_append" -> <<List, CATIS_TYPE_ANY>>
          [] f = "library_at" ->
               <<{CATIS_TYPE_LIST, CATIS_TYPE_TUPLE, CATIS_TYPE_STRING}, Integer>>
          [] f = "library_concatenate" -> <<Joinable, Joinable>>
          [] OTHER -> <<>>
\* eval is at the name of a built-in, and the stack holds fewer entries
\* than it takes, or an operand of a variant it does not accept, or the two
\* operands of a comparison do not compare, or those of ^ differ in variant
Refusing ==
    /\ IsCall /\ Callee # NULL /\ procedure[Callee].c_procedure # NoFunction
    /\ LET f == procedure[Callee].c_procedure
       IN  IF check_stack_type(heap, stack, Takes(procedure[Callee])) # NoError
           THEN TRUE
           ELSE IF f = "library_compare"
           THEN compare(heap, stack[Len(stack) - 1], stack[Len(stack)])
                  = COMPARE_TYPE_MISMATCH
           ELSE IF f = "library_concatenate"
           THEN heap[stack[Len(stack) - 1]].type # heap[stack[Len(stack)]].type
           ELSE FALSE
Refused ==
    /\ Failed(ret')
    /\ error_string' \in {"Out of stack", "Type mismatch",
                          "Type mismatch in comparison",
                          "concatenate expects two objects of the same type"}
    /\ stack' = stack
\* C20: a built-in called on a stack that holds fewer entries than it takes
\* or an operand of a variant it does not accept (a comparison of two
\* values that do not compare included) returns non-zero with the error
\* set, and leaves on the stack the same handles in the same order.
C20_BuiltinsRefuse == [][Refusing => Refused]_vars
\* the same for every built-in but if-else
C20_ButIfElse ==
    [][(Refusing /\ procedure[Callee].name # <<"i", "f", "-", "e", "l", "s", "e">>)
          => Refused]_vars

(* -- C21 ---------------------------------------------------------------- *)
\* library_if is about to run as if, with two Lists to pop
IfCalled ==
    /\ Called("library_if") /\ procedure[Callee].name = <<"i", "f">>
    /\ Len(stack) >= 2
    /\ IsList(heap, stack[Len(stack)]) /\ IsList(heap, stack[Len(stack) - 1])
\* cond has returned 0 to an if
IfCondDone ==
    /\ ~crashed /\ ctl # <<>> /\ Top.k = "if" /\ Top.name = <<"i", "f">>
    /\ Top.pc = "condition" /\ ret = 0
TopIsBool == stack # <<>> /\ heap[stack[Len(stack)]].type = CATIS_TYPE_BOOL
\* what cond has added to the stack if found when it was called: the depth
\* now, less the depth then without cond and branch
NetEffect == Len(stack) - (Len(Top.entry) - 2)
IfPops ==
    IfCalled =>
       /\ stack' = stack_drop(stack, 2)
       /\ Len(ctl') = Len(ctl) + 2
       /\ ctl'[Len(ctl) + 1].condition = stack[Len(stack) - 1]
       /\ ctl'[Len(ctl) + 1].if_branch = stack[Len(stack)]
       /\ ctl'[Len(ctl) + 2] = EvalOf(stack[Len(stack) - 1])
IfTakes ==
    (IfCondDone /\ TopIsBool) =>
       /\ stack' = stack_drop(stack, 1)
       /\ IF heap[stack[Len(stack)]].boolean # 0
          THEN ctl' = [ctl EXCEPT ![Len(ctl)].pc = "if_branch"]
                      \o <<EvalOf(Top.if_branch)>>
          ELSE ctl' = Advance(Pop(ctl)) /\ ret' = NoReturn
\* C21 as the specification states it: if pops cond and branch and
\* evaluates cond; it fails unless cond left exactly one Bool, a net stack
\* effect of one value; that Bool is consumed and branch is evaluated if
\* and only if it is #t.
C21_AsStated ==
    [][/\ IfPops
       /\ IfTakes
       /\ (IfCondDone /\ ~(TopIsBool /\ NetEffect = 1)) =>
             Failed(ret') /\ stack' = stack]_vars
\* C21: if pops cond and branch and evaluates cond; when cond has returned
\* 0 it fails unless the top of the stack is a Bool, whatever cond pushed
\* or popped beside it; that Bool is consumed and branch is evaluated if
\* and only if it is #t.
C21_If ==
    [][/\ IfPops
       /\ IfTakes
       /\ (IfCondDone /\ ~TopIsBool) =>
             /\ Failed(ret') /\ stack' = stack
             /\ error_string' \in {"Out of stack", "Type mismatch"}]_vars
\* [1 1 1 ==] [7] if has left 1 7: cond left two values, the Bool on top,
\* and the branch ran
C21_TwoValues ==
    /\ nlines = 1 /\ buffer = Wrapped(Lines.if_extra) /\ ctl = <<>>
    /\ Len(stack) = 2
    /\ IsInteger(heap, stack[1], 1)
    /\ IsInteger(heap, stack[2], 7)

(* -- C22 ---------------------------------------------------------------- *)
\* the current frame is the one eval made to run the body of dup, swap or
\* drop
StackWords == {<<"d", "u", "p">>, <<"s", "w", "a", "p">>, <<"d", "r", "o", "p">>}
InStackWord ==
    /\ ~crashed /\ frames[frame].procedure # NULL
    /\ procedure[frames[frame].procedure].name \in StackWords
    /\ \E k \in 1..Len(ctl) : ctl[k].k = "call" /\ ctl[k].previous = frames[frame].previous
\* the stack holds these Ints, bottom first
HoldsIntegers(ns) ==
    /\ Len(stack) = Len(ns)
    /\ \A k \in 1..Len(ns) : IsInteger(heap, stack[k], ns[k])
\* the slots of the top level's frame hold these Ints, and no other slot is
\* bound
TopLevelLocals(slots) ==
    /\ frame = 1
    /\ DOMAIN slots = {index \in DOMAIN frames[1].locals : frames[1].locals[index] # NULL}
    /\ \A index \in DOMAIN slots : IsInteger(heap, frames[1].locals[index], slots[index])
\* the line, typed first, leaves these Ints and these locals with this result
Leaves(line, result, ns, slots) ==
    FirstLineDone(line) =>
       /\ (ret = 0) = result
       /\ HoldsIntegers(ns)
       /\ TopLevelLocals(slots)
\* C22: in a fresh interpreter dup has effect ( x -- x x ), swap has
\* ( x y -- y x ) and drop has ( x -- ); each leaves the stack below its
\* operands as it was and changes no local of the caller's frame, not even
\* one that has the name of a local of its own; with too few operands each
\* fails and leaves the stack as it found it.
C22_StackWords ==
    /\ [][InStackWord =>
            frames'[frames[frame].previous] = frames[frames[frame].previous]]_vars
    /\ [](/\ Leaves(Lines.dup_top, TRUE, <<3, 4, 4>>, [x \in {"x"} |-> 9])
          /\ Leaves(Lines.swap_top, TRUE, <<3, 5, 4>>,
                    [x \in {"x", "y"} |-> IF x = "x" THEN 9 ELSE 8])
          /\ Leaves(Lines.drop_top, TRUE, <<3>>, [x \in {"_"} |-> 9])
          /\ Leaves(Lines.dup_none, FALSE, <<>>, [x \in {"x"} |-> 9])
          /\ Leaves(Lines.swap_one, FALSE, <<3>>,
                    [x \in {"x", "y"} |-> IF x = "x" THEN 9 ELSE 8])
          /\ Leaves(Lines.drop_none, FALSE, <<>>, [x \in {"_"} |-> 9])
          /\ (FirstLineDone(Lines.dup_top) => stack[2] = stack[3]))
\* 9 (x) 8 (y) 3 4 5 swap has left 3 5 4, with x still 9 and y still 8
C22_Swapped ==
    /\ FirstLineDone(Lines.swap_top) /\ ret = 0
    /\ HoldsIntegers(<<3, 5, 4>>)
    /\ IsInteger(heap, Local(frames[1], "x"), 9)
    /\ IsInteger(heap, Local(frames[1], "y"), 8)

(* -- C23 ---------------------------------------------------------------- *)
\* the name is bound to a body, a List that parse_object gave
BoundToBody(name) ==
    LET entry == lookup_procedure(procedure, name)
    IN  /\ entry # NULL
        /\ procedure[entry].c_procedure = NoFunction
        /\ IsList(heap, procedure[entry].procedure)
\* the bootstrap words, each with a line that invokes it on arguments of the
\* types it is made for
Invoking ==
    <<[name |-> <<"d", "u", "p">>, line |-> Lines.dup_top],
      [name |-> <<"s", "w", "a", "p">>, line |-> Lines.swap_top],
      [name |-> <<"d", "r", "o", "p">>, line |-> Lines.drop_top],
      [name |-> <<"m", "a", "p">>, line |-> Lines.map_list],
      [name |-> <<"e", "a", "c", "h">>, line |-> Lines.each_list],
      [name |-> <<"h", "e", "a", "d">>, line |-> Lines.head_list],
      [name |-> <<"t", "a", "i", "l">>, line |-> Lines.tail_list]>>
Runs(words) ==
    \A k \in words :
       /\ nlines = 0 => BoundToBody(Invoking[k].name)
       /\ FirstLineDone(Invoking[k].line) => ret = 0
\* C23: after construction each of dup, swap, drop, map, each, head and tail
\* is bound to a body that parsed, and a line that invokes it on arguments
\* of the right types is evaluated to its end and returns 0.
C23_BootstrapRuns == Runs(1..7)
\* the same without tail
C23_ButTail == Runs(1..6)

(* -- C24 ---------------------------------------------------------------- *)
\* eval is at a $x whose slot is unbound in the current frame
UnboundLocal ==
    /\ AtElement
    /\ heap[Element].type = CATIS_TYPE_SYMBOL /\ heap[Element].quoted = 0
    /\ At(heap[Element].pointer, 1) = "$"
    /\ Local(frames[frame], At(heap[Element].pointer, 2)) = NULL
\* eval is at a symbol that names no procedure
UnboundSymbol == IsCall /\ Callee = NULL
\* eval is at an unquoted Tuple of more elements than the stack has entries
ShortCapture ==
    /\ AtElement
    /\ heap[Element].type = CATIS_TYPE_TUPLE /\ heap[Element].quoted = 0
    /\ Len(stack) < Len(heap[Element].element)
\* the element whose name the error message of a short capture reads is a
\* Symbol, as in every Tuple the reader makes
NamedBySymbol ==
    heap[heap[Element].element[Len(stack) + 1]].type = CATIS_TYPE_SYMBOL
\* eval returns non-zero to its caller with the error set and nothing else
\* changed
FailsClean(message) ==
    /\ ret' = 1 /\ ctl' = Pop(ctl)
    /\ error_string' = message
    /\ stack' = stack /\ frames' = frames /\ frame' = frame
    /\ heap' = heap /\ ~crashed'
\* C24: when eval is at a $x whose slot is unbound, at a symbol that names
\* no procedure, or at a capture of K locals with fewer than K entries on
\* the stack, it returns non-zero with the error set, and the stack and the
\* locals of the current frame are as they were before that element.
C24_ElementFails ==
    [][/\ UnboundLocal => FailsClean("Unbound local variable")
       /\ UnboundSymbol => FailsClean("Symbol nout bound to procedure")
       /\ ShortCapture => FailsClean("Out of stack while capturing local")]_vars
\* the same, for the captures from a Tuple whose elements are Symbols
C24_ButWild ==
    [][/\ UnboundLocal => FailsClean("Unbound local variable")
       /\ UnboundSymbol => FailsClean("Symbol nout bound to procedure")
       /\ (ShortCapture /\ NamedBySymbol) =>
             FailsClean("Out of stack while capturing local")]_vars

(* -- C25 ---------------------------------------------------------------- *)
\* the Tuples that exist in the heap h
Tuples(h) == {o \in 1..Len(h) : ~h[o].freed /\ h[o].type = CATIS_TYPE_TUPLE}
\* every element of the Tuple is a Symbol whose name is one byte
SingleByteSymbols(h, o) ==
    \A k \in 1..Len(h[o].element) :
       LET e == h[o].element[k]
       IN  h[e].type = CATIS_TYPE_SYMBOL /\ Len(h[e].pointer) = 1
TupleInvariant(h) == \A o \in Tuples(h) : SingleByteSymbols(h, o)
\* C25: every Tuple that exists in a reachable state, made by the reader or
\* by a built-in such as to-tuple, has only Symbols of one byte as elements;
\* so has every unquoted Tuple eval captures from.
C25_TupleInvariant == TupleInvariant(heap)
\* the same of every step but a call of to-tuple: it leaves no Tuple with
\* another element when there was none
C25_ButToTuple ==
    [][(TupleInvariant(heap) /\ ~Called("library_to_tuple")) =>
          TupleInvariant(heap')]_vars

(* -- C26 ---------------------------------------------------------------- *)
\* the reader has returned a Symbol for the source text
ReadSymbol ==
    /\ parsed # NotParsed /\ parsed.object # NULL
    /\ heap[parsed.object].type = CATIS_TYPE_SYMBOL
\* where the object begins in the text, and whether a quote begins it
Begin == consume_space_and_comment(source, 1)
QuoteFirst == At(source, Begin) = "'"
\* the Symbol has a name, which is the bytes of the text up to where the
\* reader stopped, less the quote when one begins it; quoted tells whether
\* one does
NamedAsRead ==
    LET o == heap[parsed.object]
    IN  /\ Len(o.pointer) > 0
        /\ (o.quoted # 0) = QuoteFirst
        /\ o.pointer = SubSeq(source, IF QuoteFirst THEN Begin + 1 ELSE Begin,
                              parsed.next - 1)
\* C26: every Symbol the reader gives has a name that is not empty, which
\* is the text without its quote prefix, and quoted records the prefix;
\* also when the quote is followed by a byte that can not be in a Symbol.
C26_SymbolNames == ReadSymbol => NamedAsRead
\* the same of the texts where a byte of a Symbol follows the quote
C26_ButBareQuote ==
    (ReadSymbol /\ (QuoteFirst => is_symbol(At(source, Begin + 1)))) =>
       NamedAsRead

(* -- C27 ---------------------------------------------------------------- *)
\* the reader has been given the source text and has returned or faulted
FirstRead == parsed # NotParsed /\ output = <<>>
\* the text begins with a double quote that no double quote closes before
\* its end, a byte after a backslash being part of the String
UnclosedString ==
    /\ At(source, Begin) = "\""
    /\ string_body(source, Begin + 1, <<>>).stop > Len(source)
ReadsWithin ==
    /\ ~crashed
    /\ parsed.next <= Len(source) + 1
    /\ UnclosedString =>
          /\ parsed.object = NULL
          /\ parsed.error = "Quotation marks never closed in string"
\* C27: the reader never reads a byte past the NUL that ends the source
\* text, and for a text whose String is never closed it returns failure;
\* also when the last byte of the text is a backslash.
C27_Unclosed == FirstRead => ReadsWithin
\* the same of the texts that do not end in a backslash
C27_ButBackslash ==
    (FirstRead /\ At(source, Len(source)) # "\\") => ReadsWithin

(* -- C28 ---------------------------------------------------------------- *)
\* the frame that is current again once activation k of ctl and those above
\* it have returned, f being current now: a body's call goes back to the
\* caller's frame, an up-eval to the frame it saved
Back(a, f) ==
    IF a.k = "call" THEN a.previous
    ELSE IF a.k = "up_eval" /\ a.saved # NULL THEN a.saved
    ELSE f
RECURSIVE Unwound(_, _)
Unwound(k, f) == IF k = 0 THEN f ELSE Unwound(k - 1, Back(ctl[k], f))
\* the frames those returns pass through
RECURSIVE Pending(_, _)
Pending(k, f) == IF k = 0 THEN {f} ELSE {f} \cup Pending(k - 1, Back(ctl[k], f))
\* the returns that are due lead back to the frame of the top level, and
\* the frames they pass through are the ones not yet released
FramesNested ==
    ~crashed =>
       /\ Unwound(Len(ctl), frame) = 1
       /\ {f \in 1..Len(frames) : ~frames[f].freed} = Pending(Len(ctl), frame)
\* eval has returned to repl: the top level's frame is current, with no
\* procedure, and every other frame has been released
TopLevelReturned ==
    (ctl # <<>> /\ Top.k = "repl" /\ ret # NoReturn /\ ~crashed) =>
       /\ frame = 1 /\ frames[1].procedure = NULL /\ ~frames[1].freed
       /\ \A f \in 2..Len(frames) : frames[f].freed
\* the steps by which eval and the built-ins that call it return
Returning(kinds) ==
    /\ ~crashed /\ ctl # <<>> /\ Top.k \in kinds /\ ret # NoReturn
    /\ Len(ctl') < Len(ctl)
ReturnSteps ==
    /\ Returning({"call"}) =>
          /\ frame' = Top.previous
          /\ frames'[frame].freed
          /\ \A index \in DOMAIN frames[frame].locals :
                LET o == frames[frame].locals[index]
                IN  o # NULL =>
                       \/ heap'[o].freed
                       \/ heap'[o].reference_count < heap[o].reference_count
          /\ Failed(ret) => ret' = ret
    /\ Returning({"if", "lib_eval", "up_eval"}) =>
          /\ frame' = Back(Top, frame)
          /\ frames'[frame'].procedure = Top.previous
    /\ Failed(ret) =>
          /\ Len(ctl') < Len(ctl)
          /\ stack' = stack
          /\ Failed(ret') \/ ctl' = <<>>
          /\ \A k \in 1..Len(ctl') : ctl'[k].i = ctl[k].i
\* C28: whenever the evaluation of a List returns, with status zero or not,
\* the frame that was current when it began is current again, every frame
\* made during it has been released with its locals, the procedure of each
\* frame is the one it had before the call, and after a status that is not
\* zero no further element is evaluated.
C28_FramesRestored ==
    /\ [][ReturnSteps]_vars
    /\ [](FramesNested /\ TopLevelReturned)
\* [1 2 3] [$x dup *] map has failed in the quotation, three evals and two
\* frames deep, and eval has returned to repl in the top level's frame
C28_FailedDeep ==
    /\ FirstLineDone(Program_map_local) /\ Failed(ret)
    /\ frame = 1 /\ Len(frames) > 1
    /\ \A f \in 2..Len(frames) : frames[f].freed

(* -- C29 ---------------------------------------------------------------- *)
\* eval is about to call a procedure that has a body
BodyCalled == Called(NoFunction)
\* eval is at a capture, which does not fault
CapturingHere ==
    /\ AtElement
    /\ heap[Element].type = CATIS_TYPE_TUPLE /\ heap[Element].quoted = 0
\* eval is at a $x, in the frame of a body whose caller has x bound
ReadsOwn ==
    /\ AtElement
    /\ heap[Element].type = CATIS_TYPE_SYMBOL /\ heap[Element].quoted = 0
    /\ At(heap[Element].pointer, 1) = "$"
    /\ frames[frame].previous # NULL
    /\ Local(frames[frames[frame].previous], At(heap[Element].pointer, 2)) # NULL
LocalSlots == {Ascii[k] : k \in 1..Len(Ascii)}
BodySteps ==
    /\ (BodyCalled /\ ~crashed') =>
          /\ Len(frames') = Len(frames) + 1 /\ frame' = Len(frames')
          /\ frames'[frame'].previous = frame
          /\ \A index \in LocalSlots : Local(frames'[frame'], index) = NULL
          /\ \A f \in 1..Len(frames) : frames'[f] = frames[f]
    /\ (CapturingHere /\ ~crashed') =>
          \A f \in 1..Len(frames) : f # frame => frames'[f] = frames[f]
    /\ (ReadsOwn /\ ~crashed') =>
          LET own == Local(frames[frame], At(heap[Element].pointer, 2))
          IN  IF own = NULL
              THEN Failed(ret') /\ stack' = stack
                   /\ error_string' = "Unbound local variable"
              ELSE stack' = Append(stack, own)
\* C29: as long as no use of freed memory stops the program, a procedure
\* with a body runs in a new frame whose previous frame is the caller's and
\* whose local slots are all unbound; a capture changes the
\* locals of no frame but the current one; and a $x read in the body gives
\* the body's own x, or fails when the body has bound none, whatever the
\* caller has bound to x.  5 (x) [$x] 'f define f fails and leaves x 5;
\* 5 (x) [(x) $x dup] 'f define 7 f $x leaves 7 7 5.
C29_OwnFrame ==
    /\ [][BodySteps]_vars
    /\ [](/\ Leaves(Lines.body_unbound, FALSE, <<>>, [x \in {"x"} |-> 5])
          /\ Leaves(Lines.body_capture, TRUE, <<7, 7, 5>>, [x \in {"x"} |-> 5]))
\* 5 (x) [(x) $x dup] 'f define 7 f $x has left 7 7 5
C29_CallerKeeps ==
    /\ FirstLineDone(Lines.body_capture) /\ ret = 0
    /\ HoldsIntegers(<<7, 7, 5>>)
    /\ IsInteger(heap, Local(frames[1], "x"), 5)

(* -- C30 ---------------------------------------------------------------- *)
\* eval is at a quoted Symbol or a quoted Tuple
QuotedHere ==
    /\ AtElement
    /\ heap[Element].type \in {CATIS_TYPE_TUPLE, CATIS_TYPE_SYMBOL}
    /\ heap[Element].quoted # 0
\* every element of the Tuple is a Symbol, as in the Tuples the reader makes
OfSymbols(h, o) ==
    \A e \in Range(h[o].element) : h[e].type = CATIS_TYPE_SYMBOL
\* the step pushes a value of new nodes that is the element at every depth,
\* but for its own quoted flag, which is 0, and changes no node there was
PushesCopy ==
    LET c == stack'[Len(stack')]
    IN  /\ stack' = Append(stack, c)
        /\ heap'[c].quoted = 0
        /\ StructurallyEqual([heap' EXCEPT ![c].quoted = heap[Element].quoted],
                             c, heap, Element)
        /\ \A o \in Nodes(heap', c) : o > Len(heap)
        /\ \A o \in 1..Len(heap) : heap'[o] = heap[o]
\* the line ['(a) 'b] 'f define f f has left (a) b (a) b: the second call
\* of f gave values equal to those of the first, of other nodes
TwiceEqual ==
    FirstLineDone(Lines.quote_twice) =>
       /\ ret = 0 /\ Len(stack) = 4
       /\ heap[stack[1]].type = CATIS_TYPE_TUPLE /\ heap[stack[1]].quoted = 0
       /\ heap[stack[2]].type = CATIS_TYPE_SYMBOL /\ heap[stack[2]].quoted = 0
       /\ heap[stack[2]].pointer = <<"b">>
       /\ StructurallyEqual(heap, stack[1], heap, stack[3])
       /\ StructurallyEqual(heap, stack[2], heap, stack[4])
       /\ Nodes(heap, stack[1]) \cap Nodes(heap, stack[3]) = {}
       /\ stack[2] # stack[4]
\* C30: evaluating a quoted Symbol or a quoted Tuple pushes a deep copy of
\* new nodes whose quoted flag is 0 and which is otherwise the element at
\* every depth, and leaves the element quoted and as it was; so a program
\* evaluated twice pushes equal unquoted values.
C30_QuotedCopies ==
    /\ [][QuotedHere => PushesCopy]_vars
    /\ []TwiceEqual
\* the same of the quoted Symbols and of the quoted Tuples of Symbols
C30_ButNested ==
    /\ [][(QuotedHere /\ OfSymbols(heap, Element)) => PushesCopy]_vars
    /\ []TwiceEqual

(* -- C31 ---------------------------------------------------------------- *)
\* the handles a C function in progress owns: repl its program, eval and
\* up-eval the List they popped, if / if-else / while their quotations
Owned(a) ==
    IF a.k \in {"repl", "lib_eval", "up_eval"} THEN <<a.list>>
    ELSE IF a.k = "if" THEN <<a.condition, a.if_branch, a.else_branch>>
    ELSE <<>>
\* the places of the sequences or functions fs[x], x in the set, that hold
\* the object o
Places(fs, set, o) ==
    UNION {{<<x, k>> : k \in {j \in DOMAIN fs[x] : fs[x][j] = o}} : x \in set}
\* the number of pointers to o there are in the state: from the stack, the
\* locals of the frames, the elements of the containers, the bodies of the
\* procedures and the C functions in progress
Holders(h, s, fs, procs, c, o) ==
    Cardinality(Places(<<s>>, {1}, o))
    + Cardinality(Places([f \in 1..Len(fs) |-> fs[f].locals],
                         {f \in 1..Len(fs) : ~fs[f].freed}, o))
    + Cardinality(Places([x \in 1..Len(h) |-> h[x].element],
                         {x \in 1..Len(h) : ~h[x].freed}, o))
    + Cardinality(Places(<<[k \in 1..Len(procs) |-> procs[k].procedure]>>, {1}, o))
    + Cardinality(Places([k \in 1..Len(c) |-> Owned(c[k])], 1..Len(c), o))
\* the count of o is the number of pointers to it, and o is freed when
\* there is none
Counted(h, s, fs, procs, c, o) ==
    LET n == Holders(h, s, fs, procs, c, o)
    IN  IF n = 0 THEN h[o].freed
        ELSE ~h[o].freed /\ h[o].reference_count = n
\* the quotations that the if, if-else or while at the top of ctl popped
Quotations == Range(Owned(Top)) \ {NULL}
\* library_if is at its end: its eval has returned and the next step
\* leaves it
IfLeaves ==
    /\ ~crashed /\ ctl # <<>> /\ Top.k = "if" /\ ret # NoReturn
    /\ Len(ctl') < Len(ctl)
\* the quotations of every if, if-else and while in progress are counted
QuotationsHeld ==
    ~crashed =>
       \A k \in 1..Len(ctl) :
          ctl[k].k = "if" =>
             \A o \in Range(Owned(ctl[k])) \ {NULL} :
                Counted(heap, stack, frames, procedure, ctl, o)
\* C31: on every way out of if, if-else and while (the normal end, an error
\* in cond, a cond that leaves no Bool on top, an error in an arm or in the
\* body) each quotation popped is released exactly once: before the step
\* its count is the number of pointers to it, the built-in's included, and
\* after the step it is the number of those that are left, the quotation
\* being freed when none is.
C31_QuotationsReleased ==
    /\ []QuotationsHeld
    /\ [][IfLeaves =>
            \A o \in Quotations :
               Counted(heap', stack', frames', procedure', ctl', o)]_vars
\* [1 1 ==] [] 7 <- if has ended: the branch, which nothing else held, is
\* freed and the cond, a literal of the program, is not
C31_FreshBranchFreed ==
    /\ FirstLineDone(Lines.if_fresh) /\ ret = 0
    /\ HoldsIntegers(<<7>>)
    /\ \E o \in 1..Len(heap) :
          /\ heap[o].freed /\ heap[o].type = CATIS_TYPE_LIST
          /\ Len(heap[o].element) = 1 /\ stack[1] \in Range(heap[o].element)
    /\ ~heap[heap[Top.list].element[1]].freed

(* -- C32 ---------------------------------------------------------------- *)
\* define is about to bind the List under the top to the name on the top
Defining ==
    /\ Called("library_define")
    /\ check_stack_type(heap, stack,
           <<{CATIS_TYPE_LIST}, {CATIS_TYPE_SYMBOL}>>) = NoError
\* no two entries of the table have the same name
OneEntryEach ==
    \A i, j \in 1..Len(procedure) :
       procedure[i].name = procedure[j].name => i = j
\* every entry has a native function or a body, a List, and not both
NativeOrBody ==
    \A k \in 1..Len(procedure) :
       IF procedure[k].c_procedure # NoFunction
       THEN procedure[k].procedure = NULL
       ELSE IsList(heap, procedure[k].procedure)
\* the step binds the name: lookup gives an entry that holds the List just
\* defined, and the entries of the other names are as they were
Binds ==
    LET name == heap[stack[Len(stack)]].pointer
        found == lookup_procedure(procedure', name)
    IN  /\ found # NULL
        /\ procedure'[found].name = name
        /\ procedure'[found].procedure = stack[Len(stack) - 1]
        /\ \A k \in 1..Len(procedure) :
              procedure[k].name # name =>
                 /\ lookup_procedure(procedure', procedure[k].name) # NULL
                 /\ procedure'[lookup_procedure(procedure', procedure[k].name)]
                       = procedure[k]
        /\ \A k \in 1..Len(procedure') :
              procedure'[k].name # name =>
                 lookup_procedure(procedure, procedure'[k].name) # NULL
\* C32: after load_library and any number of calls of define the table has
\* at most one entry for a name, every entry has exactly one of a native
\* function and a body List, and lookup of a name gives the entry with the
\* body defined last for it: a define binds its List to its name and leaves
\* the other names alone, and no other step changes the table.
C32_Table ==
    /\ [](OneEntryEach /\ NativeOrBody)
    /\ [][IF Defining /\ ~crashed' THEN Binds ELSE procedure' = procedure]_vars
\* [1] 'g define [2] 'g define g has left 2: g has one entry, which holds
\* the second body
C32_DefinedTwice ==
    /\ FirstLineDone(Lines.define_twice) /\ ret = 0
    /\ HoldsIntegers(<<2>>)
    /\ Len(procedure) = Len(load_library.procedure) + 1
    /\ IsIntList(heap, procedure[lookup_procedure(procedure, <<"g">>)].procedure,
                 <<2>>)

====
